---------------------------- MODULE Spec2Model ----------------------------
(***************************************************************************)
(* A model of the MCP orchestrator of src/Orchestrator: the permission     *)
(* engine, protocol client and process supervisor of main.py, the two plan *)
(* executors of task_executor.py and task_executor_enhanced.py, and the    *)
(* planner of intelligent_planner.py.                                      *)
(*                                                                         *)
(* Seven specifications share the variables:                               *)
(*   SpecPerm    the permission engine, the role / policy operations and   *)
(*               the loading of the configuration and policy files,        *)
(*   SpecSup     the process supervisor, the protocol client and           *)
(*               create_plan_from_user_input,                              *)
(*   SpecDisc    capability discovery, every combination of replies,       *)
(*   SpecFlight  send_mcp_request step by step under two caller threads,   *)
(*   SpecExec    the plan executors driving the orchestrator,              *)
(*   SpecPlan    the planner's intent analysis, risk, plan creation and    *)
(*               display,                                                  *)
(*   SpecGate    operation calls and resource / prompt reads under every   *)
(*               configuration, policy and role.                           *)
(*                                                                         *)
(* Not modelled: wall-clock values (timestamps, durations), printed text,  *)
(* identifiers built from the clock, and the arguments of a tool call.     *)
(* A text is named by its literal; Keywords gives the keywords that its    *)
(* lower-cased form contains, which is all the code ever asks of a text.   *)
(***************************************************************************)
EXTENDS Naturals, Sequences, FiniteSets, TLC

VARIABLES
    servers,              \* MCPOrchestrator.servers: name -> MCPServerProcess
    server_capabilities,  \* MCPOrchestrator.server_capabilities
    config,               \* MCPOrchestrator.config (the "rbac" block of it)
    permissions,          \* MCPOrchestrator.permissions
    current_role,         \* MCPOrchestrator.current_role
    rbac_enabled,         \* MCPOrchestrator.rbac_enabled
    wire,                 \* requests delivered to providers by the last operation
    ret,                  \* what the last operation returned (or that it raised)
    executor,             \* which executor class runs plans: "basic" | "enhanced"
    current_plan,         \* executor.current_plan
    execution_log,        \* executor.execution_log
    backup_state,         \* EnhancedTaskExecutor.backup_state
    results,              \* the results dict of the running execute_plan
    rollback,             \* the rollback dict of the running _handle_failure_comprehensive
    pc,                   \* position of the running execute_plan
    invoked,              \* step numbers handed to call_server_tool by this execute_plan
    flight                \* per caller thread: the send_mcp_request it is inside of

vars == << servers, server_capabilities, config, permissions, current_role,
           rbac_enabled, wire, ret, executor, current_plan, execution_log,
           backup_state, results, rollback, pc, invoked, flight >>

orchVars == << servers, server_capabilities, config, permissions, current_role,
               rbac_enabled >>
rbacVars == << config, permissions, current_role, rbac_enabled >>
execVars == << executor, current_plan, execution_log, backup_state, results,
               rollback, pc, invoked >>

-----------------------------------------------------------------------------
(* Names, roles, tools *)

Names == {"jenkins", "kubernetes"}
Tools == {"build_job", "deploy_app"}
ValidRoles == {"user", "admin"}
Roles == ValidRoles \cup {"guest"}

None == [none |-> TRUE]

-----------------------------------------------------------------------------
(* Policy documents (tool_permissions.json).  tool_permissions is the set  *)
(* of entries (server, tool, allowed_roles) of the document; an entry      *)
(* without an "allowed_roles" key reads as an empty list.  unknown_tools   *)
(* is "missing" when the document has no default_policy.unknown_tools.     *)

EmptyTable == {}

TableA == { [server |-> "jenkins",    tool |-> "build_job",  allowed_roles |-> {"user", "admin"}],
            [server |-> "kubernetes", tool |-> "deploy_app", allowed_roles |-> {"admin"}] }

TableB == { [server |-> "kubernetes", tool |-> "build_job",  allowed_roles |-> {"user"}],
            [server |-> "kubernetes", tool |-> "deploy_app", allowed_roles |-> {}] }

ToolPermissionTables == {EmptyTable, TableA, TableB}

DefaultPolicies == {"deny", "allow", "missing", "ask"}

PolicyDocs == [tool_permissions : ToolPermissionTables, unknown_tools : DefaultPolicies]

\* self.permissions = {} after construction: no table, no default policy
NoPermissions == [tool_permissions |-> EmptyTable, unknown_tools |-> "missing"]

\* what load_permissions returns when the file is missing or invalid
FallbackPermissions == [tool_permissions |-> EmptyTable, unknown_tools |-> "deny"]

\* load_permissions: the parsed file, or the fallback document
load_permissions == PolicyDocs \cup {FallbackPermissions}

\* the "rbac" block of the registry configuration: absent, or enabled flag + role
NoRbacBlock == [has_rbac |-> FALSE, enabled |-> FALSE, current_role |-> "user"]
ConfigFiles == {NoRbacBlock} \cup
               [has_rbac : {TRUE}, enabled : BOOLEAN, current_role : Roles]

-----------------------------------------------------------------------------
(* Permission engine *)

\* tool_perms = permissions["tool_permissions"].get(server_name, {})
tool_perms(perms, server_name) ==
    {e \in perms.tool_permissions : e.server = server_name}

\* tool_name in tool_perms
InPolicy(perms, server_name, tool_name) ==
    \E e \in tool_perms(perms, server_name) : e.tool = tool_name

allowed_roles(perms, server_name, tool_name) ==
    (CHOOSE e \in tool_perms(perms, server_name) : e.tool = tool_name).allowed_roles

Decision(allowed, reason) == [allowed |-> allowed, reason |-> reason]

\* mutant: unknown tools are always denied, whatever the default policy
check_tool_permission_NoDefault(enabled, role, perms, server_name, tool_name) ==
    IF ~enabled THEN Decision(TRUE, "RBAC disabled")
    ELSE IF ~InPolicy(perms, server_name, tool_name)
         THEN Decision(FALSE, "not found in permissions configuration")
    ELSE IF role \in allowed_roles(perms, server_name, tool_name)
         THEN Decision(TRUE, "has access")
    ELSE Decision(FALSE, "does not have permission")

\* mutant: a listed tool falls back to the default policy when the role is not listed
check_tool_permission_Fallback(enabled, role, perms, server_name, tool_name) ==
    IF ~enabled THEN Decision(TRUE, "RBAC disabled")
    ELSE IF ~InPolicy(perms, server_name, tool_name)
              \/ role \notin allowed_roles(perms, server_name, tool_name)
         THEN IF perms.unknown_tools \in {"deny", "missing"}
              THEN Decision(FALSE, "not found in permissions configuration")
              ELSE Decision(TRUE, "Default policy allows unknown tools")
    ELSE Decision(TRUE, "has access")

\* mutant: the policy is consulted although enforcement is disabled
check_tool_permission_NoSwitch(enabled, role, perms, server_name, tool_name) ==
    IF ~InPolicy(perms, server_name, tool_name)
    THEN IF perms.unknown_tools \in {"deny", "missing"}
         THEN Decision(FALSE, "not found in permissions configuration")
         ELSE Decision(TRUE, "Default policy allows unknown tools")
    ELSE IF role \in allowed_roles(perms, server_name, tool_name)
         THEN Decision(TRUE, "has access")
    ELSE Decision(FALSE, "does not have permission")

\* MCPOrchestrator.check_tool_permission, as a function of the state it reads
check_tool_permission(enabled, role, perms, server_name, tool_name) ==
    IF ~enabled THEN Decision(TRUE, "RBAC disabled")
    ELSE IF ~InPolicy(perms, server_name, tool_name)
         THEN \* default_policy.get("unknown_tools", "deny")
              IF perms.unknown_tools \in {"deny", "missing"}
              THEN Decision(FALSE, "not found in permissions configuration")
              ELSE Decision(TRUE, "Default policy allows unknown tools")
    ELSE IF role \in allowed_roles(perms, server_name, tool_name)
         THEN Decision(TRUE, "has access")
    ELSE Decision(FALSE, "does not have permission")

\* the check in the current state
Check(server_name, tool_name) ==
    check_tool_permission(rbac_enabled, current_role, permissions, server_name, tool_name)

-----------------------------------------------------------------------------
(* Role and policy operations (the MCP tools of main.py) *)

\* mutant: the check probes the provider before it decides
CheckToolPermission_Probes(server_name, tool_name) ==
    /\ pc \in {"idle", "returned", "raised"}
    /\ ret' = [op |-> "check_tool_permission", server |-> server_name,
               tool |-> tool_name, decision |-> Check(server_name, tool_name)]
    /\ wire' = << [server |-> server_name, method |-> "initialize"] >>
    /\ UNCHANGED << orchVars, execVars, flight >>

\* a direct call of orchestrator.check_tool_permission(server_name, tool_name)
CheckToolPermission(server_name, tool_name) ==
    /\ pc \in {"idle", "returned", "raised"}
    /\ ret' = [op |-> "check_tool_permission", server |-> server_name,
               tool |-> tool_name, decision |-> Check(server_name, tool_name)]
    /\ wire' = << >>
    /\ UNCHANGED << orchVars, execVars, flight >>

\* load_orchestrator_config: the file holds any configuration; permissions are
\* (re)loaded only when the configuration enables enforcement
LoadOrchestratorConfig(file, doc) ==
    /\ pc \in {"idle", "returned", "raised"}
    /\ config' = file
    /\ rbac_enabled' = file.enabled
    /\ current_role' = file.current_role
    /\ permissions' = IF file.enabled THEN doc ELSE permissions
    /\ ret' = [op |-> "load_orchestrator_config"]
    /\ wire' = << >>
    /\ UNCHANGED << servers, server_capabilities, execVars, flight >>

\* What a file on disk is: absent, text that is not JSON, bytes that are not
\* text (open(...).read() raises UnicodeDecodeError), or a document
FileStates == {"missing", "invalid_json", "not_text", "valid"}

\* the registry the default configuration of load_config declares
DefaultServers == {"notes-server", "id-manager-server"}

\* MCPOrchestrator.load_config() on the registry configuration file: whether it
\* raises, the providers under "mcpServers" of what it returns, and whether it
\* wrote the file.  A valid file is one that declares the providers of Names.
load_config(file) ==
    CASE file = "missing" ->
             [raised |-> FALSE, mcpServers |-> DefaultServers, written |-> TRUE]
      [] file = "invalid_json" ->
             [raised |-> FALSE, mcpServers |-> {}, written |-> FALSE]
      [] file = "not_text" ->
             [raised |-> TRUE, mcpServers |-> {}, written |-> FALSE]
      [] OTHER ->
             [raised |-> FALSE, mcpServers |-> Names, written |-> FALSE]

\* MCPOrchestrator.load_permissions() on the policy file, doc being the
\* document of a valid file
LoadedPermissions(file, doc) ==
    CASE file \in {"missing", "invalid_json"} ->
             [raised |-> FALSE, permissions |-> FallbackPermissions]
      [] file = "not_text" -> [raised |-> TRUE, permissions |-> None]
      [] OTHER -> [raised |-> FALSE, permissions |-> doc]

\* one call of load_config
LoadConfig(file) ==
    /\ pc \in {"idle", "returned", "raised"}
    /\ ret' = [op |-> "load_config", file |-> file, out |-> load_config(file)]
    /\ wire' = << >>
    /\ UNCHANGED << orchVars, execVars, flight >>

\* one call of load_permissions
LoadPermissions(file, doc) ==
    /\ pc \in {"idle", "returned", "raised"}
    /\ ret' = [op |-> "load_permissions", file |-> file,
               out |-> LoadedPermissions(file, doc)]
    /\ wire' = << >>
    /\ UNCHANGED << orchVars, execVars, flight >>

\* set_role: the role is assigned before the configuration is written; without
\* an "rbac" block config["rbac"] raises KeyError after the assignment
SetRole(role) ==
    /\ pc \in {"idle", "returned", "raised"}
    /\ wire' = << >>
    /\ IF role \notin ValidRoles
       THEN /\ ret' = [op |-> "set_role", raised |-> FALSE, ok |-> FALSE]
            /\ UNCHANGED << orchVars, execVars, flight >>
       ELSE /\ current_role' = role
            /\ IF config.has_rbac
               THEN /\ config' = [config EXCEPT !.current_role = role]
                    /\ ret' = [op |-> "set_role", raised |-> FALSE, ok |-> TRUE]
               ELSE /\ config' = config
                    /\ ret' = [op |-> "set_role", raised |-> TRUE, ok |-> FALSE]
            /\ UNCHANGED << servers, server_capabilities, permissions,
                            rbac_enabled, execVars, flight >>

\* reload_permissions
ReloadPermissions(doc) ==
    /\ pc \in {"idle", "returned", "raised"}
    /\ permissions' = doc
    /\ ret' = [op |-> "reload_permissions"]
    /\ wire' = << >>
    /\ UNCHANGED << servers, server_capabilities, config, current_role,
                    rbac_enabled, execVars, flight >>

-----------------------------------------------------------------------------
(* Protocol envelopes.  A reply carries a result payload, an error payload *)
(* or neither; an error payload is a text (str) or a structured object     *)
(* (dict, as JSON-RPC errors are).  A text is named by its literal.        *)

NoError == [type |-> "none", text |-> "", reason |-> ""]
ErrText(text) == [type |-> "str", text |-> text, reason |-> ""]
ErrObject == [type |-> "dict", text |-> "", reason |-> ""]

\* f"Permission denied: {reason}" of _execute_step
ErrDenied(reason) == [type |-> "str", text |-> "Permission denied", reason |-> reason]

ResultReply == [kind |-> "result", error |-> NoError]
NeitherReply == [kind |-> "neither", error |-> NoError]
ErrorReply(err) == [kind |-> "error", error |-> err]

\* "error" in response
HasError(response) == response.kind = "error"

\* the keywords of _infer_root_cause that occur in the lower-cased text
Keywords(text) ==
    CASE text = "Permission denied"               -> {"permission", "denied"}
      [] text = "Access Denied"                   -> {"denied"}
      [] text = "permission denied"               -> {"permission", "denied"}
      [] text = "HTTP communication error: Connection refused" -> {"connection"}
      [] OTHER                                    -> {}

-----------------------------------------------------------------------------
(* Providers.  A server record is MCPServerProcess: server_type "stdio" or *)
(* "http" ("none": the name is not in self.servers), status, and alive:    *)
(* whether the child process runs (process.poll() is None).                *)

Unregistered == [server_type |-> "none", status |-> "none", alive |-> FALSE]
HttpServer(status) == [server_type |-> "http", status |-> status, alive |-> FALSE]
StdioServer(status, alive) == [server_type |-> "stdio", status |-> status, alive |-> alive]

IsRegistered(name) == servers[name].server_type # "none"

\* what a provider advertises, per category
Advertised(name) ==
    IF name = "jenkins"
    THEN [tools |-> << "build_job" >>, resources |-> << "jenkins://jobs" >>, prompts |-> << >>]
    ELSE [tools |-> << "deploy_app", "build_job" >>, resources |-> << >>,
          prompts |-> << "rollout" >>]

NoCapabilities == [tools |-> << >>, resources |-> << >>, prompts |-> << >>]

\* How a provider (or the transport) answers one request:
\*   result / result_omit  a result payload (result_omit: without the listed category)
\*   rpc_error             an error payload that is a structured object
\*   text_error            an error payload that is the text "permission denied"
\*   neither               a JSON object without result or error
\*   bad_json              a reply that is not valid JSON
\*   eof                   the child exits without replying (readline returns "")
\*   broken_pipe           the child has exited and the write raises
\*   connect_error / status_error   httpx raises before / after the POST is delivered
JsonReplies == {"result", "result_omit", "rpc_error", "text_error", "neither"}
PipeReplies == JsonReplies \cup {"bad_json", "eof", "broken_pipe"}
HttpReplies == JsonReplies \cup {"bad_json", "connect_error", "status_error"}

\* the replies enumerated for a provider of the given transport: to tools/call and
\* the other single requests, to initialize and to a list request of discover
Died(server_type) == IF server_type = "http" THEN "connect_error" ELSE "eof"
CallReplies(server_type) == IF server_type = "http" THEN HttpReplies ELSE PipeReplies
InitReplies(server_type) == {"result", "rpc_error", Died(server_type)}
ListReplies(server_type) == {"result", "result_omit", "rpc_error", Died(server_type)}

\* json.loads(line) / response.json() of a well-formed reply
JsonReply(reply) ==
    CASE reply \in {"result", "result_omit"} -> ResultReply
      [] reply = "rpc_error"                 -> ErrorReply(ErrObject)
      [] reply = "text_error"                -> ErrorReply(ErrText("permission denied"))
      [] OTHER                               -> NeitherReply

SendOut(response, delivered, alive) ==
    [response |-> response, delivered |-> delivered, alive |-> alive]

\* MCPOrchestrator.send_mcp_request_http: every exception becomes an error envelope
send_mcp_request_http(srv, reply) ==
    CASE reply = "connect_error" ->
             SendOut(ErrorReply(ErrText("HTTP communication error: Connection refused")),
                     FALSE, srv.alive)
      [] reply \in {"status_error", "bad_json", "eof", "broken_pipe"} ->
             SendOut(ErrorReply(ErrText("HTTP communication error")), TRUE, srv.alive)
      [] OTHER -> SendOut(JsonReply(reply), TRUE, srv.alive)

\* mutant: the pipe transport lets its exceptions through
send_mcp_request_Uncaught(srv, reply) ==
    IF srv.server_type = "none"
    THEN SendOut(ErrorReply(ErrText("Server not found or not running")), FALSE, srv.alive)
    ELSE IF srv.server_type = "http"
    THEN IF srv.status # "running"
         THEN SendOut(ErrorReply(ErrText("Server is not running")), FALSE, srv.alive)
         ELSE send_mcp_request_http(srv, reply)
    ELSE IF srv.status # "running" \/ ~srv.alive
    THEN SendOut(ErrorReply(ErrText("Server is not running")), FALSE, srv.alive)
    ELSE CASE reply \in {"broken_pipe", "connect_error"} ->
                  SendOut([kind |-> "raised", error |-> NoError], FALSE, FALSE)
           [] reply = "eof" ->
                  SendOut(ErrorReply(ErrText("No response from server")), TRUE, FALSE)
           [] reply \in {"bad_json", "status_error"} ->
                  SendOut([kind |-> "raised", error |-> NoError], TRUE, TRUE)
           [] OTHER -> SendOut(JsonReply(reply), TRUE, TRUE)

\* a variant that posts to an HTTP provider whatever its status
send_mcp_request_AnyStatus(srv, reply) ==
    IF srv.server_type = "none"
    THEN SendOut(ErrorReply(ErrText("Server not found or not running")), FALSE, srv.alive)
    ELSE IF srv.server_type = "http" THEN send_mcp_request_http(srv, reply)
    ELSE IF srv.status # "running" \/ ~srv.alive
    THEN SendOut(ErrorReply(ErrText("Server is not running")), FALSE, srv.alive)
    ELSE CASE reply \in {"broken_pipe", "connect_error"} ->
                  SendOut(ErrorReply(ErrText("Communication error")), FALSE, FALSE)
           [] reply = "eof" ->
                  SendOut(ErrorReply(ErrText("No response from server")), TRUE, FALSE)
           [] reply \in {"bad_json", "status_error"} ->
                  SendOut(ErrorReply(ErrText("Communication error")), TRUE, TRUE)
           [] OTHER -> SendOut(JsonReply(reply), TRUE, TRUE)

\* MCPOrchestrator.send_mcp_request on the server record srv, answered by reply
send_mcp_request(srv, reply) ==
    IF srv.server_type = "none"
    THEN SendOut(ErrorReply(ErrText("Server not found or not running")), FALSE, srv.alive)
    ELSE IF srv.server_type = "http"
    THEN IF srv.status # "running"
         THEN SendOut(ErrorReply(ErrText("Server is not running")), FALSE, srv.alive)
         ELSE send_mcp_request_http(srv, reply)
    ELSE IF srv.status # "running" \/ ~srv.alive
    THEN SendOut(ErrorReply(ErrText("Server is not running")), FALSE, srv.alive)
    ELSE CASE reply \in {"broken_pipe", "connect_error"} ->
                  SendOut(ErrorReply(ErrText("Communication error")), FALSE, FALSE)
           [] reply = "eof" ->
                  SendOut(ErrorReply(ErrText("No response from server")), TRUE, FALSE)
           [] reply \in {"bad_json", "status_error"} ->
                  SendOut(ErrorReply(ErrText("Communication error")), TRUE, TRUE)
           [] OTHER -> SendOut(JsonReply(reply), TRUE, TRUE)

\* the request as it appears on the wire, when it was delivered
Sent(name, method, out) ==
    IF out.delivered THEN << [server |-> name, method |-> method] >> ELSE << >>

\* a variant that caches a category the reply does not carry
Category_KeepsOmitted(name, cat, reply, out) ==
    IF out.response.kind = "result" THEN Advertised(name)[cat] ELSE << >>

\* one category of discover: the advertised list when the reply carries it, else []
Category(name, cat, reply, out) ==
    IF out.response.kind = "result" /\ reply = "result" THEN Advertised(name)[cat] ELSE << >>

\* one list request of discover and what it adds to the discovery so far (acc):
\* the request on the wire, its category of the cache entry, the child's state
ListOutcome(name, acc, cat, reply, out) ==
    [acc EXCEPT !.sent = @ \o Sent(name, cat \o "/list", out),
                !.entry[cat] = Category(name, cat, reply, out),
                !.alive = out.alive]

ListRequest(name, srv, acc, cat, reply) ==
    ListOutcome(name, acc, cat, reply,
                send_mcp_request([srv EXCEPT !.alive = acc.alive], reply))

\* what discover returns when it succeeds: the capabilities dict (no "error" key)
Capabilities == [kind |-> "capabilities", error |-> NoError]

\* a variant that enumerates whatever the handshake returned
Handshake_Enumerates(name, srv, r, o1) ==
    ListRequest(name, srv,
      ListRequest(name, srv,
        ListRequest(name, srv,
                    [called |-> TRUE, error |-> HasError(o1.response),
                     response |-> o1.response, entry |-> NoCapabilities,
                     sent |-> Sent(name, "initialize", o1), alive |-> o1.alive],
                    "tools", r.tools),
        "resources", r.resources),
      "prompts", r.prompts)

\* discover after the initialize request was answered by o1
Handshake(name, srv, r, o1) ==
    IF HasError(o1.response)
    THEN [called |-> TRUE, error |-> TRUE, response |-> o1.response, entry |-> None,
          sent |-> Sent(name, "initialize", o1), alive |-> o1.alive]
    ELSE ListRequest(name, srv,
           ListRequest(name, srv,
             ListRequest(name, srv,
                         [called |-> TRUE, error |-> FALSE, response |-> Capabilities,
                          entry |-> NoCapabilities,
                          sent |-> Sent(name, "initialize", o1), alive |-> o1.alive],
                         "tools", r.tools),
             "resources", r.resources),
           "prompts", r.prompts)

\* MCPOrchestrator.discover_server_capabilities(name), on the server record srv
\* of name, with the four replies r: whether an error envelope is returned and
\* what is returned, the cache entry written (None: none written), the requests
\* delivered and whether the child still runs
discover_server_capabilities(name, srv, r) ==
    IF srv.server_type = "none"
    THEN [called |-> TRUE, error |-> TRUE,
          response |-> ErrorReply(ErrText("Server not found")),
          entry |-> None, sent |-> << >>, alive |-> srv.alive]
    ELSE Handshake(name, srv, r, send_mcp_request(srv, r.init))

\* the replies of one discovery.  Replies that no request is there to receive
\* are fixed to "result": those after a failed handshake (no list request is
\* sent) and, for a pipe provider, those after the child has exited.
DiscoverReplies(server_type) ==
    { r \in [init : InitReplies(server_type), tools : ListReplies(server_type),
             resources : ListReplies(server_type), prompts : ListReplies(server_type)] :
        /\ r.init # "result" =>
              r.tools = "result" /\ r.resources = "result" /\ r.prompts = "result"
        /\ (server_type = "stdio" /\ r.tools = "eof") =>
              r.resources = "result" /\ r.prompts = "result"
        /\ (server_type = "stdio" /\ r.resources = "eof") => r.prompts = "result" }

\* the replies of a discovery that is not run
NoDiscovery == [init |-> "result", tools |-> "result", resources |-> "result",
                prompts |-> "result"]

-----------------------------------------------------------------------------
(* call_server_tool.  The operators take the provider's server record srv *)
(* and whether a cache entry exists for it (cached), so that two calls of  *)
(* one operation can be chained.                                           *)

CallOut(response, sent, entry, alive, discovered) ==
    [response |-> response, sent |-> sent, entry |-> entry, alive |-> alive,
     discovered |-> discovered]

\* the wire entry of a delivered tools/call
SentCall(name, tool_name, out) ==
    IF out.delivered
    THEN << [server |-> name, method |-> "tools/call", tool |-> tool_name] >>
    ELSE << >>

\* a variant that discovers whether or not an entry is cached
EnsureCapabilities_Always(server_name, srv, cached, r) ==
    discover_server_capabilities(server_name, srv, r)

\* if server_name not in self.server_capabilities: discover; called tells whether
\* discover_server_capabilities was called
EnsureCapabilities(server_name, srv, cached, r) ==
    IF ~cached
    THEN discover_server_capabilities(server_name, srv, r)
    ELSE [called |-> FALSE, error |-> FALSE, response |-> Capabilities, entry |-> None,
          sent |-> << >>, alive |-> srv.alive]

\* the tools/call request after the discovery disc, and the envelope returned
CallResult(server_name, tool_name, disc, out) ==
    CallOut(out.response, disc.sent \o SentCall(server_name, tool_name, out),
            disc.entry, out.alive, disc.called)

ToolsCall(server_name, tool_name, srv, reply, disc) ==
    CallResult(server_name, tool_name, disc,
               send_mcp_request([srv EXCEPT !.alive = disc.alive], reply))

\* mutant: the tool is called without the permission check
call_server_tool_NoCheck(server_name, tool_name, srv, cached, r, reply) ==
    IF srv.server_type = "none"
    THEN CallOut(ErrorReply(ErrText("Server not found")), << >>, None, srv.alive, FALSE)
    ELSE ToolsCall(server_name, tool_name, srv, reply,
                   EnsureCapabilities(server_name, srv, cached, r))

\* MCPOrchestrator.call_server_tool(server_name, tool_name, arguments): the
\* envelope returned, the requests delivered, the cache entry written by the
\* discovery (None: none written) and whether the child still runs.  The result
\* of the discovery is ignored: the call is sent even when the handshake failed.
call_server_tool(server_name, tool_name, srv, cached, r, reply) ==
    IF srv.server_type = "none"
    THEN CallOut(ErrorReply(ErrText("Server not found")), << >>, None, srv.alive, FALSE)
    ELSE IF ~Check(server_name, tool_name).allowed
    THEN CallOut(ErrorReply(ErrText("Access Denied")), << >>, None, srv.alive, FALSE)
    ELSE ToolsCall(server_name, tool_name, srv, reply,
                   EnsureCapabilities(server_name, srv, cached, r))

IsCached(name) == server_capabilities[name] # None

\* send_mcp_request on srv reaches the transport (it is not refused up front)
CanDeliver(srv) ==
    /\ srv.server_type # "none"
    /\ srv.status = "running"
    /\ srv.server_type = "stdio" => srv.alive

\* the replies to enumerate for one request to srv, and for a discovery on srv:
\* a request that is refused up front receives no reply
RepliesFor(srv) ==
    IF CanDeliver(srv) THEN CallReplies(srv.server_type) ELSE {"result"}

DiscoveryFor(srv) ==
    IF CanDeliver(srv) THEN DiscoverReplies(srv.server_type) ELSE {NoDiscovery}

\* the discovery replies to enumerate for a call_server_tool on name, which
\* discovers only when no cache entry exists
NeededDiscovery(name) ==
    IF ~IsCached(name) THEN DiscoveryFor(servers[name]) ELSE {NoDiscovery}

\* the registry and the cache after an operation on name
ServersAfter(name, alive) ==
    IF IsRegistered(name) THEN [servers EXCEPT ![name].alive = alive] ELSE servers

\* a variant that keeps a cached category where the new one is empty
CapabilitiesAfter_Merge(name, entry) ==
    IF entry = None THEN server_capabilities
    ELSE IF server_capabilities[name] = None
    THEN [server_capabilities EXCEPT ![name] = entry]
    ELSE [server_capabilities EXCEPT ![name] =
             [cat \in {"tools", "resources", "prompts"} |->
                 IF entry[cat] = << >> THEN server_capabilities[name][cat]
                 ELSE entry[cat]]]

\* a variant that appends what was discovered to what is cached
CapabilitiesAfter_Appends(name, entry) ==
    IF entry = None THEN server_capabilities
    ELSE IF server_capabilities[name] = None
    THEN [server_capabilities EXCEPT ![name] = entry]
    ELSE [server_capabilities EXCEPT ![name] =
             [cat \in {"tools", "resources", "prompts"} |->
                 server_capabilities[name][cat] \o entry[cat]]]

CapabilitiesAfter(name, entry) ==
    IF entry = None THEN server_capabilities
    ELSE [server_capabilities EXCEPT ![name] = entry]

\* no execute_plan is running: the coordinator takes the next operator request
Idle == pc \in {"idle", "returned", "raised"}

\* the MCP tool call_server_tool: a direct call by the operator
CallServerTool(server_name, tool_name, r, reply) ==
    /\ Idle
    /\ LET out == call_server_tool(server_name, tool_name, servers[server_name],
                                   IsCached(server_name), r, reply)
       IN  /\ servers' = ServersAfter(server_name, out.alive)
           /\ server_capabilities' = CapabilitiesAfter(server_name, out.entry)
           /\ wire' = out.sent
           /\ ret' = [op |-> "call_server_tool", server |-> server_name,
                      tool |-> tool_name, response |-> out.response,
                      discovered |-> out.discovered]
    /\ UNCHANGED << rbacVars, execVars, flight >>

-----------------------------------------------------------------------------
(* Process supervisor.  The registry configuration gives each name its     *)
(* transport: jenkins is an HTTP provider, kubernetes a pipe provider.     *)

ServerType(name) == IF name = "jenkins" THEN "http" ELSE "stdio"

\* a variant whose failed start forgets the cached capabilities
StartServer_ClearsCache(name, config_ok, srv, r) ==
    /\ Idle
    /\ IF (IsRegistered(name) /\ servers[name].status = "running") \/ ~config_ok
       THEN /\ ret' = [op |-> "start_server", name |-> name, value |-> FALSE]
            /\ wire' = << >>
            /\ server_capabilities' = [server_capabilities EXCEPT ![name] = None]
            /\ UNCHANGED servers
       ELSE LET disc == discover_server_capabilities(name, srv, r)
            IN  /\ servers' = [servers EXCEPT ![name] = [srv EXCEPT !.alive = disc.alive]]
                /\ server_capabilities' = CapabilitiesAfter(name, disc.entry)
                /\ wire' = disc.sent
                /\ ret' = [op |-> "start_server", name |-> name, value |-> TRUE]
    /\ UNCHANGED << rbacVars, execVars, flight >>

\* start_server(name, config).  config_ok: the HTTP entry has a url / the child
\* can be spawned.  srv: the server record registered (for a pipe provider the
\* child may have exited by the end of the settling pause).  The discovery's
\* outcome is ignored: start returns True once the provider is registered.
StartServer(name, config_ok, srv, r) ==
    /\ Idle
    /\ IF (IsRegistered(name) /\ servers[name].status = "running") \/ ~config_ok
       THEN /\ ret' = [op |-> "start_server", name |-> name, value |-> FALSE]
            /\ wire' = << >>
            /\ UNCHANGED << servers, server_capabilities >>
       ELSE LET disc == discover_server_capabilities(name, srv, r)
            IN  /\ servers' = [servers EXCEPT ![name] = [srv EXCEPT !.alive = disc.alive]]
                /\ server_capabilities' = CapabilitiesAfter(name, disc.entry)
                /\ wire' = disc.sent
                /\ ret' = [op |-> "start_server", name |-> name, value |-> TRUE]
    /\ UNCHANGED << rbacVars, execVars, flight >>

\* how stopping a child goes: it terminates within the timeout, it is killed
\* after the timeout, or terminate / wait / kill raises
StopOutcomes == {"graceful", "killed", "raises"}

\* what stop_server returns, with the path it took
Stopped(name, value, path) ==
    [op |-> "stop_server", name |-> name, value |-> value, path |-> path]

\* mutant: the force-kill path forgets to record the status
StopServer_KillLeavesStatus(name, how) ==
    /\ Idle
    /\ wire' = << >>
    /\ IF ~IsRegistered(name)
       THEN /\ ret' = Stopped(name, FALSE, "not_found")
            /\ UNCHANGED servers
       ELSE IF servers[name].server_type = "http"
       THEN /\ servers' = [servers EXCEPT ![name].status = "stopped"]
            /\ ret' = Stopped(name, TRUE, "http")
       ELSE IF how = "raises"
       THEN /\ ret' = Stopped(name, FALSE, "raises")
            /\ UNCHANGED servers
       ELSE IF how = "killed"
       THEN /\ servers' = [servers EXCEPT ![name].alive = FALSE]
            /\ ret' = Stopped(name, TRUE, "killed")
       ELSE /\ servers' = [servers EXCEPT ![name].status = "stopped",
                                          ![name].alive = FALSE]
            /\ ret' = Stopped(name, TRUE, how)
    /\ UNCHANGED << server_capabilities, rbacVars, execVars, flight >>

\* a variant that gives up after the timeout without killing the child
StopServer_TimeoutNoKill(name, how) ==
    /\ Idle
    /\ wire' = << >>
    /\ IF ~IsRegistered(name)
       THEN /\ ret' = Stopped(name, FALSE, "not_found")
            /\ UNCHANGED servers
       ELSE IF servers[name].server_type = "http"
       THEN /\ servers' = [servers EXCEPT ![name].status = "stopped"]
            /\ ret' = Stopped(name, TRUE, "http")
       ELSE IF how = "raises"
       THEN /\ ret' = Stopped(name, FALSE, "raises")
            /\ UNCHANGED servers
       ELSE IF how = "killed"
       THEN /\ servers' = [servers EXCEPT ![name].status = "stopped"]
            /\ ret' = Stopped(name, TRUE, "killed")
       ELSE /\ servers' = [servers EXCEPT ![name].status = "stopped",
                                          ![name].alive = FALSE]
            /\ ret' = Stopped(name, TRUE, how)
    /\ UNCHANGED << server_capabilities, rbacVars, execVars, flight >>

\* stop_server(name)
StopServer(name, how) ==
    /\ Idle
    /\ wire' = << >>
    /\ IF ~IsRegistered(name)
       THEN /\ ret' = Stopped(name, FALSE, "not_found")
            /\ UNCHANGED servers
       ELSE IF servers[name].server_type = "http"
       THEN /\ servers' = [servers EXCEPT ![name].status = "stopped"]
            /\ ret' = Stopped(name, TRUE, "http")
       ELSE IF how = "raises"
       THEN \* except Exception: return False, the status is left as it was
            /\ ret' = Stopped(name, FALSE, "raises")
            /\ UNCHANGED servers
       ELSE /\ servers' = [servers EXCEPT ![name].status = "stopped",
                                          ![name].alive = FALSE]
            /\ ret' = Stopped(name, TRUE, how)
    /\ UNCHANGED << server_capabilities, rbacVars, execVars, flight >>

\* the child of a pipe provider exits on its own
ProcessExit(name) ==
    /\ IsRegistered(name)
    /\ servers[name].server_type = "stdio"
    /\ servers[name].alive
    /\ servers' = [servers EXCEPT ![name].alive = FALSE]
    /\ UNCHANGED << server_capabilities, rbacVars, execVars, flight, wire, ret >>

\* get_server_status(name): a pipe provider whose child has exited becomes stopped
GetServerStatus(name) ==
    /\ Idle
    /\ wire' = << >>
    /\ IF ~IsRegistered(name)
       THEN /\ ret' = [op |-> "get_server_status", name |-> name,
                       status |-> "not_configured"]
            /\ UNCHANGED servers
       ELSE IF servers[name].server_type = "http"
       THEN /\ ret' = [op |-> "get_server_status", name |-> name,
                       status |-> servers[name].status]
            /\ UNCHANGED servers
       ELSE IF servers[name].alive
       THEN /\ ret' = [op |-> "get_server_status", name |-> name, status |-> "running"]
            /\ UNCHANGED servers
       ELSE /\ ret' = [op |-> "get_server_status", name |-> name, status |-> "stopped"]
            /\ servers' = [servers EXCEPT ![name].status = "stopped"]
    /\ UNCHANGED << server_capabilities, rbacVars, execVars, flight >>

\* the MCP tool discover_server_tools: an explicit discovery
DiscoverServerTools(name, r) ==
    /\ Idle
    /\ LET disc == discover_server_capabilities(name, servers[name], r)
       IN  /\ servers' = ServersAfter(name, disc.alive)
           /\ server_capabilities' = CapabilitiesAfter(name, disc.entry)
           /\ wire' = disc.sent
           /\ ret' = [op |-> "discover_server_capabilities", name |-> name,
                      error |-> disc.error, response |-> disc.response,
                      replies |-> r, previous |-> server_capabilities[name]]
    /\ UNCHANGED << rbacVars, execVars, flight >>

\* a variant that consults the permission engine before it sends, as
\* call_server_tool does
GetServerResource_Checked(name, method, reply) ==
    /\ Idle
    /\ LET out == IF ~IsRegistered(name)
                  THEN SendOut(ErrorReply(ErrText("Server not found")), FALSE,
                               servers[name].alive)
                  ELSE IF ~Check(name, method).allowed
                  THEN SendOut(ErrorReply(ErrText("Access Denied")), FALSE,
                               servers[name].alive)
                  ELSE send_mcp_request(servers[name], reply)
       IN  /\ servers' = ServersAfter(name, out.alive)
           /\ wire' = Sent(name, method, out)
           /\ ret' = [op |-> method, name |-> name, response |-> out.response]
    /\ UNCHANGED << server_capabilities, rbacVars, execVars, flight >>

\* get_server_resource / get_server_prompt: one request, no permission check
GetServerResource(name, method, reply) ==
    /\ Idle
    /\ LET out == IF ~IsRegistered(name)
                  THEN SendOut(ErrorReply(ErrText("Server not found")), FALSE,
                               servers[name].alive)
                  ELSE send_mcp_request(servers[name], reply)
       IN  /\ servers' = ServersAfter(name, out.alive)
           /\ wire' = Sent(name, method, out)
           /\ ret' = [op |-> method, name |-> name, response |-> out.response]
    /\ UNCHANGED << server_capabilities, rbacVars, execVars, flight >>

\* orchestrator.server_capabilities.get(name, {}).get(cat, []) in the cache
Listed(cache, name, cat) ==
    IF cache[name] = None THEN << >> ELSE cache[name][cat]

\* what list_server_resources / list_server_prompts return after the discovery
\* disc (not called when an entry was cached): the error of a discovery that
\* failed, else the cached list of the category
ListReturn(name, cat, disc) ==
    [op |-> "list_server_" \o cat, name |-> name, discovered |-> disc.called,
     error |-> disc.error,
     listed |-> IF disc.error THEN << >>
                ELSE Listed(CapabilitiesAfter(name, disc.entry), name, cat)]

\* the MCP tools list_server_resources (cat = "resources") and
\* list_server_prompts (cat = "prompts")
ListServerCategory(name, cat, r) ==
    /\ Idle
    /\ LET disc == EnsureCapabilities(name, servers[name], IsCached(name), r)
       IN  /\ servers' = ServersAfter(name, disc.alive)
           /\ server_capabilities' = CapabilitiesAfter(name, disc.entry)
           /\ wire' = disc.sent
           /\ ret' = ListReturn(name, cat, disc)
    /\ UNCHANGED << rbacVars, execVars, flight >>

\* one turn of the loop of get_available_capabilities, for a running provider
\* name: st is the registry, the cache, the requests delivered, the dict built
\* and the providers discovered so far; disc is the discovery (if one was needed)
GatherOutcome(name, st, disc, cache) ==
    [servers |-> [st.servers EXCEPT ![name].alive = disc.alive],
     cache |-> cache,
     sent |-> st.sent \o disc.sent,
     capabilities |-> Append(st.capabilities,
                             [server |-> name, tools |-> Listed(cache, name, "tools")]),
     discovered |-> IF disc.called THEN st.discovered \cup {name} ELSE st.discovered]

\* the cache after the discovery disc of name
Discovered(name, st, disc) ==
    GatherOutcome(name, st, disc,
                  IF disc.entry = None THEN st.cache
                  ELSE [st.cache EXCEPT ![name] = disc.entry])

GatherStep(name, st, r) ==
    IF st.servers[name].status # "running" THEN st
    ELSE Discovered(name, st,
                    EnsureCapabilities(name, st.servers[name], st.cache[name] # None, r))

\* IntelligentTaskPlanner.get_available_capabilities().  order: the iteration
\* order of orchestrator.servers; rs: the replies of each provider's discovery
get_available_capabilities(order, rs) ==
    GatherStep(order[2],
               GatherStep(order[1],
                          [servers |-> servers, cache |-> server_capabilities,
                           sent |-> << >>, capabilities |-> << >>, discovered |-> {}],
                          rs[order[1]]),
               rs[order[2]])

GatherReturn(order, out) ==
    /\ servers' = out.servers
    /\ server_capabilities' = out.cache
    /\ wire' = out.sent
    /\ ret' = [op |-> "get_available_capabilities", order |-> order,
               capabilities |-> out.capabilities, discovered |-> out.discovered]

GetAvailableCapabilities(order, rs) ==
    /\ Idle
    /\ GatherReturn(order, get_available_capabilities(order, rs))
    /\ UNCHANGED << rbacVars, execVars, flight >>

\* a direct call of MCPOrchestrator.send_mcp_request(name, request) by a client
\* of the orchestrator; ret keeps the server record the call found
SendMcpRequest(name, reply) ==
    /\ Idle
    /\ LET out == send_mcp_request(servers[name], reply)
       IN  /\ servers' = ServersAfter(name, out.alive)
           /\ wire' = Sent(name, "ping", out)
           /\ ret' = [op |-> "send_mcp_request", name |-> name, srv |-> servers[name],
                      reply |-> reply, response |-> out.response]
    /\ UNCHANGED << server_capabilities, rbacVars, execVars, flight >>

-----------------------------------------------------------------------------
(* Plans.  A TaskStep keeps the fields the executors read; rollback_step 0 *)
(* is None.  Only the failed step's rollback_step is ever read, so the     *)
(* plans enumerated give all their steps the same rollback_step.           *)

MaxSteps == 3

StepCatalog ==
    { [server_name |-> "jenkins", tool_name |-> "build_job",
       description |-> "Build the application for payment-service"],
      [server_name |-> "kubernetes", tool_name |-> "deploy_app",
       description |-> "Deploy the application for payment-service"] }

TaskStep(i, c, rb) ==
    [step_number |-> i, server_name |-> c.server_name, tool_name |-> c.tool_name,
     description |-> c.description, rollback_step |-> rb]

\* failure_handling: whether the plan's failure-handling narrative is non-empty
Plans ==
    UNION { { [steps |-> [i \in 1..n |-> TaskStep(i, f[i], rb)], failure_handling |-> fh] :
                f \in [1..n -> StepCatalog], rb \in 0..n, fh \in BOOLEAN } :
            n \in 0..MaxSteps }

\* kw in text.lower(), for the names and descriptions of the catalog
Contains(text, kw) ==
    CASE text = "kubernetes" -> kw = "kubernetes"
      [] text = "deploy_app" -> kw = "deploy"
      [] text = "build_job"  -> kw = "build"
      [] text = "Build the application for payment-service"  -> kw = "build"
      [] text = "Deploy the application for payment-service" -> kw = "deploy"
      [] OTHER -> FALSE

-----------------------------------------------------------------------------
(* Step execution (both executors share _execute_step)                     *)

ExecutionResult(success, step, error) ==
    [success |-> success, step_number |-> step.step_number, error |-> error]

StepOut(result, sent, srvs, caps, called) ==
    [result |-> result, sent |-> sent, srvs |-> srvs, caps |-> caps, called |-> called]

\* the ExecutionResult made of the envelope out that call_server_tool returned
StepResult(step, srvs, caps, out) ==
    StepOut(IF HasError(out.response)
            THEN ExecutionResult(FALSE, step, out.response.error)
            ELSE ExecutionResult(TRUE, step, NoError),
            out.sent,
            IF srvs[step.server_name].server_type = "none" THEN srvs
            ELSE [srvs EXCEPT ![step.server_name].alive = out.alive],
            IF out.entry = None THEN caps ELSE [caps EXCEPT ![step.server_name] = out.entry],
            << step.step_number >>)

\* _execute_step(step) in the registry srvs and cache caps: the ExecutionResult,
\* the requests delivered, the registry and cache afterwards, and the step
\* number when call_server_tool was invoked
execute_step(step, srvs, caps, r, reply) ==
    IF ~Check(step.server_name, step.tool_name).allowed
    THEN StepOut(ExecutionResult(FALSE, step,
                                 ErrDenied(Check(step.server_name, step.tool_name).reason)),
                 << >>, srvs, caps, << >>)
    ELSE StepResult(step, srvs, caps,
                    call_server_tool(step.server_name, step.tool_name,
                                     srvs[step.server_name],
                                     caps[step.server_name] # None, r, reply))

\* _create_pre_deployment_backup(plan): two items per Kubernetes deployment step,
\* then the service and configuration items
create_pre_deployment_backup(plan) ==
    LET K == { i \in DOMAIN plan.steps :
                 /\ Contains(plan.steps[i].server_name, "kubernetes")
                 /\ Contains(plan.steps[i].tool_name, "deploy") }
    IN  [success |-> TRUE, items_backed_up |-> 2 * Cardinality(K) + 2,
         first_location |-> IF K = {} THEN "service_configuration"
                            ELSE "kubernetes_deployment"]

\* _classify_failure(failed_step)
classify_failure(step) ==
    IF Contains(step.description, "deploy") \/ Contains(step.server_name, "kubernetes")
    THEN "deployment_failure"
    ELSE IF Contains(step.description, "build") THEN "build_failure"
    ELSE IF Contains(step.description, "test") THEN "test_failure"
    ELSE IF Contains(step.description, "quality") \/ Contains(step.server_name, "sonar")
    THEN "quality_gate_failure"
    ELSE "general_failure"

\* _infer_root_cause(error_message) for a text
infer_root_cause(text) ==
    LET K == Keywords(text)
    IN  IF {"cannot find module", "missing"} \cap K # {}
        THEN "Missing configuration or dependency file"
        ELSE IF {"permission", "denied"} \cap K # {}
        THEN "Permission or authentication issue"
        ELSE IF {"timeout", "connection"} \cap K # {}
        THEN "Network connectivity or timeout issue"
        ELSE IF {"memory", "oom"} \cap K # {} THEN "Out of memory issue"
        ELSE IF "crashloop" \in K THEN "Container startup failure"
        ELSE "Unknown error - requires manual investigation"

-----------------------------------------------------------------------------
(* execute_plan *)

NewResults == [status |-> "in_progress", steps_completed |-> 0, steps_failed |-> 0,
               step_results |-> << >>, rollback |-> None, rollback_performed |-> FALSE]

\* mutant: the executor is reset and the backup taken before the approval gate
ExecutePlan_ResetsFirst(plan, user_approval) ==
    /\ Idle
    /\ wire' = << >>
    /\ current_plan' = plan
    /\ execution_log' = << >>
    /\ backup_state' = IF executor = "enhanced"
                       THEN create_pre_deployment_backup(plan)
                       ELSE backup_state
    /\ IF ~user_approval
       THEN /\ ret' = [op |-> "execute_plan", status |-> "pending_approval"]
            /\ UNCHANGED << results, rollback, pc, invoked >>
       ELSE /\ results' = NewResults
            /\ rollback' = None
            /\ invoked' = << >>
            /\ pc' = "loop"
            /\ ret' = [op |-> "execute_plan", status |-> "running"]
    /\ UNCHANGED << orchVars, executor, flight >>

\* execute_plan(plan, user_approval) up to the loop: the approval gate, the
\* reset of the executor and (enhanced executor) the pre-deployment backup
ExecutePlan(plan, user_approval) ==
    /\ Idle
    /\ wire' = << >>
    /\ IF ~user_approval
       THEN /\ ret' = [op |-> "execute_plan", status |-> "pending_approval"]
            /\ UNCHANGED << current_plan, execution_log, backup_state, results,
                            rollback, pc, invoked >>
       ELSE /\ current_plan' = plan
            /\ execution_log' = << >>
            /\ results' = NewResults
            /\ backup_state' = IF executor = "enhanced"
                               THEN create_pre_deployment_backup(plan)
                               ELSE backup_state
            /\ rollback' = None
            /\ invoked' = << >>
            /\ pc' = "loop"
            /\ ret' = [op |-> "execute_plan", status |-> "running"]
    /\ UNCHANGED << orchVars, executor, flight >>

NextIndex == Len(results.step_results) + 1

\* the actions _handle_failure reports once its rollback step returned ex
RolledBack(failed_step, ex) ==
    [actions_taken |-> << [step |-> failed_step.rollback_step,
                           success |-> ex.result.success],
                          [step |-> 0, success |-> TRUE] >>,
     sent |-> ex.sent, srvs |-> ex.srvs, caps |-> ex.caps, called |-> ex.called]

\* _handle_failure(failed_step, results) of the basic executor, after the failed
\* step left the registry srvs and the cache caps: the step whose number is
\* failed_step.rollback_step, if any, is executed, then the team is notified
handle_failure(failed_step, srvs, caps, r, reply) ==
    IF failed_step.rollback_step \in DOMAIN current_plan.steps
    THEN RolledBack(failed_step,
                    execute_step(current_plan.steps[failed_step.rollback_step],
                                 srvs, caps, r, reply))
    ELSE [actions_taken |-> << [step |-> 0, success |-> TRUE] >>,
          sent |-> << >>, srvs |-> srvs, caps |-> caps, called |-> << >>]

\* mutant: the loop goes on after a failed step
AfterFailure_Continue == "loop"

\* where execute_plan goes after a failed step was handled: break
AfterFailure == "finish"

\* mutant: a failed step is counted as completed as well
CountStep_Both(res, step_result) ==
    [res EXCEPT !.step_results = Append(@, step_result),
                !.steps_completed = @ + 1,
                !.steps_failed = IF step_result.success THEN @ ELSE @ + 1,
                !.status = IF step_result.success THEN @ ELSE "failed"]

\* the bookkeeping of one loop iteration of execute_plan
CountStep(res, step_result) ==
    [res EXCEPT !.step_results = Append(@, step_result),
                !.steps_completed = IF step_result.success THEN @ + 1 ELSE @,
                !.steps_failed = IF step_result.success THEN @ ELSE @ + 1,
                !.status = IF step_result.success THEN @ ELSE "failed"]

\* one iteration of the loop of execute_plan: the next step is executed and
\* recorded; on failure the basic executor handles it at once (r2, reply2 answer
\* its rollback step) and the enhanced executor enters its failback phases
ExecuteStep(r, reply, r2, reply2) ==
    /\ pc = "loop"
    /\ NextIndex <= Len(current_plan.steps)
    /\ LET step == current_plan.steps[NextIndex]
           ex   == execute_step(step, servers, server_capabilities, r, reply)
           res  == CountStep(results, ex.result)
           hf   == handle_failure(step, ex.srvs, ex.caps, r2, reply2)
       IN  /\ execution_log' = Append(execution_log, ex.result)
           /\ IF ex.result.success
              THEN /\ results' = res
                   /\ pc' = "loop"
                   /\ rollback' = rollback
                   /\ servers' = ex.srvs
                   /\ server_capabilities' = ex.caps
                   /\ wire' = ex.sent
                   /\ invoked' = invoked \o ex.called
              ELSE IF executor = "enhanced"
              THEN /\ results' = res
                   /\ rollback' = [reason |-> step.step_number,
                                   failure_type |-> classify_failure(step),
                                   phases |-> << >>]
                   /\ pc' = "phase1"
                   /\ servers' = ex.srvs
                   /\ server_capabilities' = ex.caps
                   /\ wire' = ex.sent
                   /\ invoked' = invoked \o ex.called
              ELSE IF current_plan.failure_handling
              THEN /\ results' = [res EXCEPT !.rollback =
                                     [actions_taken |-> hf.actions_taken]]
                   /\ pc' = AfterFailure
                   /\ rollback' = rollback
                   /\ servers' = hf.srvs
                   /\ server_capabilities' = hf.caps
                   /\ wire' = ex.sent \o hf.sent
                   /\ invoked' = invoked \o ex.called \o hf.called
              ELSE /\ results' = res
                   /\ pc' = AfterFailure
                   /\ rollback' = rollback
                   /\ servers' = ex.srvs
                   /\ server_capabilities' = ex.caps
                   /\ wire' = ex.sent
                   /\ invoked' = invoked \o ex.called
    /\ ret' = ret
    /\ UNCHANGED << rbacVars, executor, flight, current_plan, backup_state >>

\* the end of execute_plan: the status is settled and the results are returned
FinishPlan ==
    /\ \/ pc = "finish"
       \/ pc = "loop" /\ NextIndex > Len(current_plan.steps)
    /\ results' = [results EXCEPT !.status = IF results.steps_failed = 0
                                             THEN "completed" ELSE @]
    /\ pc' = "returned"
    /\ ret' = [op |-> "execute_plan", status |-> results'.status]
    /\ UNCHANGED << orchVars, wire, executor, flight, current_plan, execution_log,
                    backup_state, rollback, invoked >>

-----------------------------------------------------------------------------
(* The failback phases of _handle_failure_comprehensive, one action each   *)

FailedStep == current_plan.steps[Len(results.step_results)]

PhaseRecord(name, detail) == [phase |-> name, success |-> TRUE, detail |-> detail]

\* a phase appends its record and the controller moves on
RunPhase(here, record, next) ==
    /\ pc = here
    /\ rollback' = [rollback EXCEPT !.phases = Append(@, record)]
    /\ pc' = next
    /\ UNCHANGED << orchVars, wire, ret, executor, flight, current_plan, execution_log,
                    backup_state, results, invoked >>

\* Phase 1: _protect_traffic
ProtectTraffic ==
    /\ pc = "phase1"
    /\ RunPhase("phase1",
                PhaseRecord("Traffic Protection",
                            IF Contains(FailedStep.server_name, "kubernetes")
                            THEN "Route all traffic to old version"
                            ELSE "No traffic protection needed"),
                "phase2")

\* a variant that takes the item it loads out of the snapshot
RollbackToPreviousVersion_Consumes ==
    /\ pc = "phase2"
    /\ rollback' = [rollback EXCEPT !.phases =
                       Append(@, PhaseRecord("Rollback to Previous Version",
                                             backup_state.first_location))]
    /\ pc' = "phase3"
    /\ backup_state' = [backup_state EXCEPT !.items_backed_up = @ - 1]
    /\ UNCHANGED << orchVars, wire, ret, executor, flight, current_plan, execution_log,
                    results, invoked >>

\* Phase 2: _rollback_to_previous_version reads the backup snapshot
RollbackToPreviousVersion ==
    /\ pc = "phase2"
    /\ RunPhase("phase2",
                PhaseRecord("Rollback to Previous Version",
                            IF backup_state # None /\ backup_state.items_backed_up > 0
                            THEN backup_state.first_location
                            ELSE "No backup available, using default rollback"),
                "phase3")

\* Phase 3: _verify_system_stability
VerifySystemStability ==
    /\ pc = "phase3"
    /\ RunPhase("phase3", PhaseRecord("System Stability Verification", "PASSED"), "phase4")

\* Phase 4: _cleanup_failed_resources
CleanupFailedResources ==
    /\ pc = "phase4"
    /\ RunPhase("phase4", PhaseRecord("Resource Cleanup", "SUCCESS"), "phase5")

\* Phase 5: _analyze_root_cause.  error_message.lower() raises AttributeError
\* when the error of the failed step is not a text; nothing catches it, so it
\* leaves _handle_failure_comprehensive and execute_plan
AnalyzeRootCause ==
    /\ pc = "phase5"
    /\ LET error_message == results.step_results[Len(results.step_results)].error
       IN  IF error_message.type = "str"
           THEN RunPhase("phase5",
                         PhaseRecord("Root Cause Analysis",
                                     infer_root_cause(error_message.text)),
                         "phase6")
           ELSE /\ pc' = "raised"
                /\ ret' = [op |-> "execute_plan", status |-> "raised"]
                /\ UNCHANGED << orchVars, wire, executor, flight, current_plan, execution_log,
                                backup_state, results, rollback, invoked >>

\* Phase 6: _generate_fix_recommendations, keyed off the inferred cause
GenerateFixRecommendations ==
    /\ pc = "phase6"
    /\ LET cause == rollback.phases[5].detail
       IN  RunPhase("phase6",
                    PhaseRecord("Fix Recommendations",
                                IF cause = "Missing configuration or dependency file"
                                THEN "Add missing configuration file"
                                ELSE IF cause = "Permission or authentication issue"
                                THEN "Check service account permissions"
                                ELSE "Review error logs"),
                    "phase7")

\* Phase 7: _archive_failure_logs
ArchiveFailureLogs ==
    /\ pc = "phase7"
    /\ RunPhase("phase7", PhaseRecord("Log Archival", "archived"), "phase8")

\* Phase 8: _notify_team, then the controller returns the rollback dict, which
\* execute_plan attaches to the results before it leaves the loop
NotifyTeam ==
    /\ pc = "phase8"
    /\ rollback' = [rollback EXCEPT !.phases =
                       Append(@, PhaseRecord("Team Notification", rollback.phases[5].detail))]
    /\ results' = [results EXCEPT !.rollback = rollback', !.rollback_performed = TRUE]
    /\ pc' = AfterFailure
    /\ UNCHANGED << orchVars, wire, ret, executor, flight, current_plan, execution_log,
                    backup_state, invoked >>

-----------------------------------------------------------------------------
(* Intent analysis (IntelligentTaskPlanner.analyze_user_intent).  A text   *)
(* is the sequence of its whitespace-separated words.  The keywords hold   *)
(* no whitespace, so a keyword is a substring of the lower-cased text iff  *)
(* it is a substring of one lower-cased word.                              *)

MaxWords == 3

Vocabulary == {"Deploy", "rollback", "service", "payment-service", "staging",
               "production", "development", "urgently", "quickly", "latest", "scale"}

\* str.lower() of a word
Lower(word) ==
    CASE word = "Deploy" -> "deploy"
      [] OTHER -> word

\* the keywords of analyze_user_intent that occur in a lower-cased word
Substrings(word) ==
    CASE word = "deploy"      -> {"deploy"}
      [] word = "redeploy"    -> {"deploy"}
      [] word = "rollback"    -> {"rollback"}
      [] word = "scale"       -> {"scale"}
      [] word = "staging"     -> {"staging"}
      [] word = "production"  -> {"prod", "production"}
      [] word = "development" -> {"dev", "development"}
      [] word = "urgently"    -> {"urgent"}
      [] word = "quickly"     -> {"quick"}
      [] word = "latest"      -> {"test"}
      [] OTHER                -> {}

\* the operator text of the hotfix scenario
ScenarioText == << "urgently", "redeploy", "payment-service", "in", "production" >>

Texts ==
    UNION { [1..n -> Vocabulary] : n \in 0..MaxWords } \cup {ScenarioText}

\* any(word in user_input_lower for word in keywords)
HasAny(text, keywords) ==
    \E i \in DOMAIN text : Substrings(Lower(text[i])) \cap keywords # {}

TargetNouns == {"code", "app", "application", "service", "microservice"}

\* a variant that goes on to the last application noun
ExtractTarget_LastNoun(text) ==
    LET nouns == {i \in DOMAIN text : Lower(text[i]) \in TargetNouns}
    IN  IF nouns = {} THEN "none"
        ELSE LET i == CHOOSE k \in nouns : \A m \in nouns : k >= m
             IN  IF i + 1 <= Len(text) THEN text[i + 1] ELSE "none"

\* the word after the first application noun; "none" (None) when there is no
\* noun or the first noun is the last word
ExtractTarget(text) ==
    LET nouns == {i \in DOMAIN text : Lower(text[i]) \in TargetNouns}
    IN  IF nouns = {} THEN "none"
        ELSE LET i == CHOOSE k \in nouns : \A m \in nouns : k <= m
             IN  IF i + 1 <= Len(text) THEN text[i + 1] ELSE "none"

\* a variant testing the rollback keywords before the deploy keywords
IntentAction_RollbackFirst(text) ==
    IF HasAny(text, {"rollback", "revert"}) THEN "rollback"
    ELSE IF HasAny(text, {"deploy", "deployment", "release"}) THEN "deploy"
    ELSE IF HasAny(text, {"scale", "scaling"}) THEN "scale"
    ELSE IF HasAny(text, {"build"}) THEN "build"
    ELSE IF HasAny(text, {"test"}) THEN "test"
    ELSE "none"

\* the if/elif chain of lines 169-179; "none" is None
IntentAction(text) ==
    IF HasAny(text, {"deploy", "deployment", "release"}) THEN "deploy"
    ELSE IF HasAny(text, {"rollback", "revert"}) THEN "rollback"
    ELSE IF HasAny(text, {"scale", "scaling"}) THEN "scale"
    ELSE IF HasAny(text, {"build"}) THEN "build"
    ELSE IF HasAny(text, {"test"}) THEN "test"
    ELSE "none"

\* a variant testing the staging keywords before the production keywords
IntentEnvironment_StagingFirst(text) ==
    IF HasAny(text, {"staging", "stage"}) THEN "staging"
    ELSE IF HasAny(text, {"prod", "production"}) THEN "production"
    ELSE IF HasAny(text, {"dev", "development"}) THEN "development"
    ELSE "production"

\* the default of line 164 and the if/elif chain of lines 181-187
IntentEnvironment(text) ==
    IF HasAny(text, {"prod", "production"}) THEN "production"
    ELSE IF HasAny(text, {"staging", "stage"}) THEN "staging"
    ELSE IF HasAny(text, {"dev", "development"}) THEN "development"
    ELSE "production"

\* a variant testing the speed keywords before the emergency keywords
IntentUrgency_SpeedFirst(text) ==
    IF HasAny(text, {"fast", "quick"}) THEN "fast"
    ELSE IF HasAny(text, {"urgent", "emergency", "hotfix", "critical", "now", "asap"})
    THEN "urgent"
    ELSE "normal"

\* the default of line 165 and the if/elif of lines 189-193
IntentUrgency(text) ==
    IF HasAny(text, {"urgent", "emergency", "hotfix", "critical", "now", "asap"})
    THEN "urgent"
    ELSE IF HasAny(text, {"fast", "quick"}) THEN "fast"
    ELSE "normal"

\* analyze_user_intent(user_input)
analyze_user_intent(text) ==
    [action |-> IntentAction(text),
     environment |-> IntentEnvironment(text),
     urgency |-> IntentUrgency(text),
     target |-> ExtractTarget(text)]

\* the planner analyses an operator text
AnalyzeUserIntent(text) ==
    /\ Idle
    /\ ret' = [op |-> "analyze_user_intent", text |-> text,
               intent |-> analyze_user_intent(text)]
    /\ wire' = << >>
    /\ UNCHANGED << orchVars, execVars, flight >>

-----------------------------------------------------------------------------
(* Plan creation (IntelligentTaskPlanner.create_deployment_plan).          *)
(* capabilities is the dict handed to it, in its iteration order: a        *)
(* sequence of entries (server, tools), tools being the list the provider  *)
(* advertised.  A tool is named by its name; NameHas and DescHas give the  *)
(* stage and risk keywords its lower-cased name and description contain.   *)

\* _load_deployment_patterns, and the generic pattern of create_deployment_plan
deployment_patterns ==
    [production_deployment |->
        << "build", "test", "quality_scan", "security_scan", "staging_deploy",
           "staging_validation", "production_deploy_canary", "production_monitoring",
           "production_scale", "notification" >>,
     staging_deployment |->
        << "build", "test", "quality_scan", "staging_deploy", "validation",
           "notification" >>,
     hotfix_deployment |->
        << "build", "critical_tests", "production_deploy_blue_green",
           "immediate_validation", "monitoring", "notification" >>,
     generic |-> << "build", "test", "deploy" >>]

\* _load_risk_matrix, in the order the dict is iterated
risk_matrix ==
    << [keyword |-> "view", risk |-> "low"],      [keyword |-> "read", risk |-> "low"],
       [keyword |-> "list", risk |-> "low"],      [keyword |-> "get", risk |-> "low"],
       [keyword |-> "create", risk |-> "medium"], [keyword |-> "build", risk |-> "medium"],
       [keyword |-> "test", risk |-> "medium"],   [keyword |-> "scan", risk |-> "medium"],
       [keyword |-> "deploy", risk |-> "high"],   [keyword |-> "scale", risk |-> "high"],
       [keyword |-> "update", risk |-> "high"],   [keyword |-> "delete", risk |-> "critical"],
       [keyword |-> "drop", risk |-> "critical"], [keyword |-> "remove", risk |-> "critical"],
       [keyword |-> "destroy", risk |-> "critical"] >>

RiskLevels == {"low", "medium", "high", "critical"}

\* the tools providers advertise to the planner
PlannerTools == {"build_job", "run_tests", "deploy_app", "get_logs", "remove_canary",
                 "send_notification"}

\* keywords in tool["name"].lower()
NameHas(tool) ==
    CASE tool = "build_job"         -> {"build"}
      [] tool = "run_tests"         -> {"test"}
      [] tool = "deploy_app"        -> {"deploy"}
      [] tool = "get_logs"          -> {"get"}
      [] tool = "remove_canary"     -> {"remove"}
      [] tool = "send_notification" -> {"notification"}
      [] OTHER                      -> {}

\* keywords in tool["description"].lower():
\*   build_job          "Build a Jenkins job"
\*   run_tests          "Run the critical_tests suite"
\*   deploy_app         "Deploy an application"
\*   get_logs           "Logs for monitoring"
\*   remove_canary      "Remove the canary after validation"
\*   send_notification  "Notify the team"
DescHas(tool) ==
    CASE tool = "build_job"         -> {"build"}
      [] tool = "run_tests"         -> {"critical_tests", "test", "critical"}
      [] tool = "deploy_app"        -> {"deploy"}
      [] tool = "get_logs"          -> {"monitoring"}
      [] tool = "remove_canary"     -> {"remove", "validation"}
      [] tool = "send_notification" -> {}
      [] OTHER                      -> {}

\* a variant taking the last match
FirstMatch_Last(action, capabilities) ==
    LET hits == { ij \in UNION { {<< i, j >> : j \in DOMAIN capabilities[i].tools} :
                                 i \in DOMAIN capabilities } :
                    action \in NameHas(capabilities[ij[1]].tools[ij[2]])
                               \cup DescHas(capabilities[ij[1]].tools[ij[2]]) }
    IN  IF hits = {} THEN None
        ELSE LET ij == CHOOSE h \in hits : \A g \in hits :
                           h[1] > g[1] \/ (h[1] = g[1] /\ h[2] >= g[2])
             IN  [server_name |-> capabilities[ij[1]].server,
                  tool_name |-> capabilities[ij[1]].tools[ij[2]]]

\* find_tools_for_action(action, capabilities)[0]: the first match, servers in
\* the order of the dict and tools in the order of each list; None if none
FirstMatch(action, capabilities) ==
    LET hits == { ij \in UNION { {<< i, j >> : j \in DOMAIN capabilities[i].tools} :
                                 i \in DOMAIN capabilities } :
                    action \in NameHas(capabilities[ij[1]].tools[ij[2]])
                               \cup DescHas(capabilities[ij[1]].tools[ij[2]]) }
    IN  IF hits = {} THEN None
        ELSE LET ij == CHOOSE h \in hits : \A g \in hits :
                           h[1] < g[1] \/ (h[1] = g[1] /\ h[2] <= g[2])
             IN  [server_name |-> capabilities[ij[1]].server,
                  tool_name |-> capabilities[ij[1]].tools[ij[2]]]

\* the first keyword of the risk matrix contained in the tool name, 0 if none
FirstRiskKeyword(tool_name) ==
    LET found == {k \in DOMAIN risk_matrix : risk_matrix[k].keyword \in NameHas(tool_name)}
    IN  IF found = {} THEN 0 ELSE CHOOSE k \in found : \A m \in found : k <= m

\* assess_tool_risk(tool_name, environment)
assess_tool_risk(tool_name, environment) ==
    LET k == FirstRiskKeyword(tool_name)
    IN  IF k = 0
        THEN IF environment = "production" THEN "medium" ELSE "low"
        ELSE IF environment = "production" /\ risk_matrix[k].risk = "medium" THEN "high"
        ELSE IF environment = "production" /\ risk_matrix[k].risk = "high" THEN "critical"
        ELSE risk_matrix[k].risk

\* _estimate_duration(step_type)
estimate_duration(step_type) ==
    CASE step_type = "build"         -> "2-5 minutes"
      [] step_type = "test"          -> "3-7 minutes"
      [] step_type = "quality_scan"  -> "2-4 minutes"
      [] step_type = "security_scan" -> "3-5 minutes"
      [] step_type = "deploy"        -> "2-3 minutes"
      [] step_type = "validation"    -> "1-2 minutes"
      [] step_type = "monitoring"    -> "5 minutes"
      [] step_type = "notification"  -> "< 30 seconds"
      [] OTHER                       -> "1-2 minutes"

\* int(expected_duration.split('-')[0].split()[0]); -1: int() raises ValueError
\* ("< 30 seconds" gives int("<"))
MinMinutes(expected_duration) ==
    CASE expected_duration = "2-5 minutes" -> 2
      [] expected_duration = "3-7 minutes" -> 3
      [] expected_duration = "2-4 minutes" -> 2
      [] expected_duration = "3-5 minutes" -> 3
      [] expected_duration = "2-3 minutes" -> 2
      [] expected_duration = "1-2 minutes" -> 1
      [] expected_duration = "5 minutes"   -> 5
      [] OTHER                             -> 0 - 1

\* _calculate_overall_risk(steps): the loop from step i on, max_risk so far
RECURSIVE OverallRiskFrom(_, _, _)
OverallRiskFrom(steps, i, max_risk) ==
    IF i > Len(steps) THEN max_risk
    ELSE IF steps[i].risk_level = "critical" THEN "critical"
    ELSE IF steps[i].risk_level = "high" /\ max_risk # "critical"
         THEN OverallRiskFrom(steps, i + 1, "high")
    ELSE IF steps[i].risk_level = "medium" /\ max_risk = "low"
         THEN OverallRiskFrom(steps, i + 1, "medium")
    ELSE OverallRiskFrom(steps, i + 1, max_risk)

\* a variant keeping the risk of the last step that raised it
calculate_overall_risk_LastWins(steps) ==
    IF steps = << >> THEN "low" ELSE steps[Len(steps)].risk_level

calculate_overall_risk(steps) == OverallRiskFrom(steps, 1, "low")

\* a variant looking at the environment before the urgency
PatternName_EnvironmentFirst(intent) ==
    IF intent.environment = "production" THEN "production_deployment"
    ELSE IF intent.environment = "staging" THEN "staging_deployment"
    ELSE IF intent.urgency = "urgent" THEN "hotfix_deployment"
    ELSE "generic"

\* the pattern create_deployment_plan chooses
PatternName(intent) ==
    IF intent.urgency = "urgent" THEN "hotfix_deployment"
    ELSE IF intent.environment = "production" THEN "production_deployment"
    ELSE IF intent.environment = "staging" THEN "staging_deployment"
    ELSE "generic"

\* a variant giving every step, the first one too, a dependency
PlannedStep_AlwaysDepends(step_num, pattern_step, match, environment) ==
    [step_number |-> step_num,
     server_name |-> match.server_name,
     tool_name |-> match.tool_name,
     stage |-> pattern_step,
     expected_duration |-> estimate_duration(pattern_step),
     risk_level |-> assess_tool_risk(match.tool_name, environment),
     dependencies |-> << step_num - 1 >>,
     validation_required |->
         /\ environment = "production"
         /\ assess_tool_risk(match.tool_name, environment) \in {"high", "critical"}]

\* TaskStep(...) as create_deployment_plan builds it for a matched stage
PlannedStep(step_num, pattern_step, match, environment) ==
    [step_number |-> step_num,
     server_name |-> match.server_name,
     tool_name |-> match.tool_name,
     stage |-> pattern_step,
     expected_duration |-> estimate_duration(pattern_step),
     risk_level |-> assess_tool_risk(match.tool_name, environment),
     dependencies |-> IF step_num > 1 THEN << step_num - 1 >> ELSE << >>,
     validation_required |->
         /\ environment = "production"
         /\ assess_tool_risk(match.tool_name, environment) \in {"high", "critical"}]

\* the loop over the pattern from stage i on
RECURSIVE MapPattern(_, _, _, _, _, _)
MapPattern(pattern, i, capabilities, environment, steps, step_num) ==
    IF i > Len(pattern) THEN steps
    ELSE IF FirstMatch(pattern[i], capabilities) = None
         THEN MapPattern(pattern, i + 1, capabilities, environment, steps, step_num)
    ELSE MapPattern(pattern, i + 1, capabilities, environment,
                    Append(steps, PlannedStep(step_num, pattern[i],
                                              FirstMatch(pattern[i], capabilities),
                                              environment)),
                    step_num + 1)

\* _calculate_total_duration(steps): the minimum total, -1 when int() raises
RECURSIVE MinTotal(_, _, _)
MinTotal(steps, i, sum) ==
    IF i > Len(steps) THEN sum
    ELSE IF MinMinutes(steps[i].expected_duration) < 0 THEN 0 - 1
    ELSE MinTotal(steps, i + 1, sum + MinMinutes(steps[i].expected_duration))

\* TaskPlan(...) over the steps; raised: _calculate_total_duration raised and
\* no plan is returned
PlanOf(intent, steps, overall_risk, approval_required) ==
    IF MinTotal(steps, 1, 0) < 0
    THEN [raised |-> TRUE, plan |-> None]
    ELSE [raised |-> FALSE,
          plan |-> [steps |-> steps,
                    total_steps |-> Len(steps),
                    min_total |-> MinTotal(steps, 1, 0),
                    overall_risk |-> overall_risk,
                    approval_required |-> approval_required,
                    priority |-> IF intent.urgency = "urgent" THEN "critical" ELSE "high",
                    environment |-> intent.environment,
                    target |-> intent.target]]

\* a variant asking for approval in production only
create_deployment_plan_ProductionOnly(intent, capabilities) ==
    LET steps == MapPattern(deployment_patterns[PatternName(intent)], 1, capabilities,
                            intent.environment, << >>, 1)
    IN  PlanOf(intent, steps, calculate_overall_risk(steps),
               intent.environment = "production")

create_deployment_plan(intent, capabilities) ==
    LET steps == MapPattern(deployment_patterns[PatternName(intent)], 1, capabilities,
                            intent.environment, << >>, 1)
    IN  PlanOf(intent, steps, calculate_overall_risk(steps),
               \/ intent.environment = "production"
               \/ calculate_overall_risk(steps) \in {"high", "critical"})

\* one call of _calculate_overall_risk
CalculateOverallRisk(steps) ==
    /\ Idle
    /\ ret' = [op |-> "calculate_overall_risk", steps |-> steps,
               overall_risk |-> calculate_overall_risk(steps)]
    /\ wire' = << >>
    /\ UNCHANGED << orchVars, execVars, flight >>

\* one call of assess_tool_risk; keyword: the risk matrix entry that decided, 0
\* when the default did
AssessToolRisk(tool_name, environment) ==
    /\ Idle
    /\ ret' = [op |-> "assess_tool_risk", tool_name |-> tool_name,
               environment |-> environment, keyword |-> FirstRiskKeyword(tool_name),
               risk |-> assess_tool_risk(tool_name, environment)]
    /\ wire' = << >>
    /\ UNCHANGED << orchVars, execVars, flight >>

\* one call of create_deployment_plan
CreateDeploymentPlan(intent, capabilities) ==
    /\ Idle
    /\ ret' = [op |-> "create_deployment_plan", intent |-> intent,
               capabilities |-> capabilities, pattern |-> PatternName(intent),
               out |-> create_deployment_plan(intent, capabilities)]
    /\ wire' = << >>
    /\ UNCHANGED << orchVars, execVars, flight >>

-----------------------------------------------------------------------------
(* The display of a plan (format_plan_for_display).  The display is the    *)
(* list of its lines; a line is its label, the text after the label and,   *)
(* for the lines that print a number, the number.  Risk and priority are   *)
(* printed as .value.upper().                                              *)

\* RiskLevel.value.upper() / Priority.value.upper()
Upper(value) ==
    CASE value = "low"      -> "LOW"
      [] value = "medium"   -> "MEDIUM"
      [] value = "high"     -> "HIGH"
      [] value = "critical" -> "CRITICAL"

\* _get_risk_emoji(risk)
get_risk_emoji(risk) ==
    CASE risk = "low"      -> "green"
      [] risk = "medium"   -> "yellow"
      [] risk = "high"     -> "orange"
      [] risk = "critical" -> "red"
      [] OTHER             -> "white"

Line(label, text, number) == [label |-> label, text |-> text, number |-> number]

\* the lines of one step (lines 489-507)
StepLines(step) ==
    << Line("Step", step.stage, step.step_number),
       Line("Server", step.server_name, 0),
       Line("Tool", step.tool_name, 0),
       Line("Risk", Upper(step.risk_level), 0),
       Line("Emoji", get_risk_emoji(step.risk_level), 0),
       Line("Duration", step.expected_duration, 0) >>
    \o (IF step.dependencies # << >>
        THEN << Line("Dependencies", "Steps", step.dependencies[1]) >> ELSE << >>)
    \o (IF step.validation_required
        THEN << Line("Manual validation required", "", 0) >> ELSE << >>)

\* the loop over plan.steps from step i on
RECURSIVE StepsDisplay(_, _)
StepsDisplay(steps, i) ==
    IF i > Len(steps) THEN << >>
    ELSE StepLines(steps[i]) \o StepsDisplay(steps, i + 1)

\* the display of a plan whose step list is steps
DisplayOf(plan, steps) ==
    << Line("INTELLIGENT TASK PLAN", "", 0),
       Line("Task", plan.target, 0),
       Line("Priority", Upper(plan.priority), 0),
       Line("Overall Risk", Upper(plan.overall_risk), 0),
       Line("Estimated Duration", "minutes", plan.min_total),
       Line("Total Steps", "", plan.total_steps) >>
    \o (IF plan.approval_required THEN << Line("APPROVAL REQUIRED", "", 0) >> ELSE << >>)
    \o << Line("EXECUTION STEPS", "", 0) >>
    \o StepsDisplay(steps, 1)
    \o << Line("Would you like to proceed with this plan?", "", 0) >>

\* a variant printing the plan's risk at every step
format_plan_for_display_PlanRisk(plan) ==
    DisplayOf(plan, [k \in DOMAIN plan.steps |->
                        [plan.steps[k] EXCEPT !.risk_level = plan.overall_risk]])

\* format_plan_for_display(plan)
format_plan_for_display(plan) == DisplayOf(plan, plan.steps)

\* one call of format_plan_for_display
FormatPlanForDisplay(plan) ==
    /\ Idle
    /\ ret' = [op |-> "format_plan_for_display", plan |-> plan,
               display |-> format_plan_for_display(plan)]
    /\ wire' = << >>
    /\ UNCHANGED << orchVars, execVars, flight >>

\* Reading a display back: the structured fields its lines carry.  A risk is
\* read from its upper-case word.
ReadRisk(text) ==
    CASE text = "LOW"      -> "low"
      [] text = "MEDIUM"   -> "medium"
      [] text = "HIGH"     -> "high"
      [] text = "CRITICAL" -> "critical"
      [] OTHER             -> None

Labelled(display, label) == SelectSeq(display, LAMBDA l : l.label = label)

ReadDisplay(display) ==
    [total_steps |-> IF Labelled(display, "Total Steps") = << >> THEN 0 - 1
                     ELSE Labelled(display, "Total Steps")[1].number,
     overall_risk |-> IF Labelled(display, "Overall Risk") = << >> THEN None
                      ELSE ReadRisk(Labelled(display, "Overall Risk")[1].text),
     steps |-> [k \in DOMAIN Labelled(display, "Step") |->
                  [step_number |-> Labelled(display, "Step")[k].number,
                   tool_name |-> IF k \in DOMAIN Labelled(display, "Tool")
                                 THEN Labelled(display, "Tool")[k].text ELSE None,
                   risk_level |-> IF k \in DOMAIN Labelled(display, "Risk")
                                  THEN ReadRisk(Labelled(display, "Risk")[k].text)
                                  ELSE None]]]

-----------------------------------------------------------------------------
(* create_plan_from_user_input: the intent, then the capabilities of the   *)
(* running providers, then the plan and its display.                       *)

\* steps 3 and 4 over the capabilities gathered; made: the result of
\* create_deployment_plan
PlanDisplayed(made) ==
    IF made.raised THEN [kind |-> "raised", plan |-> None, display |-> << >>]
    ELSE [kind |-> "plan", plan |-> made.plan,
          display |-> format_plan_for_display(made.plan)]

\* what the call returns for the intent and the capabilities gathered
PlanOutcome(intent, capabilities) ==
    IF capabilities = << >>
    THEN [kind |-> "no_servers", plan |-> None, display |-> << >>]
    ELSE PlanDisplayed(create_deployment_plan(intent, capabilities))

PlanReturn(user_input, intent, order, out) ==
    /\ servers' = out.servers
    /\ server_capabilities' = out.cache
    /\ wire' = out.sent
    /\ ret' = [op |-> "create_plan_from_user_input", user_input |-> user_input,
               intent |-> intent, order |-> order, capabilities |-> out.capabilities,
               out |-> PlanOutcome(intent, out.capabilities)]

\* create_plan_from_user_input(user_input)
CreatePlanFromUserInput(user_input, order, rs) ==
    /\ Idle
    /\ IF analyze_user_intent(user_input).action = "none"
       THEN /\ ret' = [op |-> "create_plan_from_user_input", user_input |-> user_input,
                       intent |-> analyze_user_intent(user_input), order |-> order,
                       capabilities |-> << >>,
                       out |-> [kind |-> "unable", plan |-> None, display |-> << >>]]
            /\ wire' = << >>
            /\ UNCHANGED << servers, server_capabilities >>
       ELSE PlanReturn(user_input, analyze_user_intent(user_input), order,
                       get_available_capabilities(order, rs))
    /\ UNCHANGED << rbacVars, execVars, flight >>

-----------------------------------------------------------------------------
(* send_mcp_request to a pipe provider, step by step, for callers that run *)
(* in threads of their own: the status test and the write (lines 93-100),  *)
(* then the blocking readline and the parse (103-107).  Between the two    *)
(* the request is in flight: the child may answer it, exit, or be stopped  *)
(* by another caller.                                                      *)

Callers == {"a", "b"}

NotSending == [stage |-> "idle", name |-> "none", reply |-> "none"]
NoFlight == [c \in Callers |-> NotSending]

\* the callers whose request to name is written and not yet answered
Outstanding(name) ==
    { c \in Callers : /\ flight[c].stage = "sent"
                      /\ flight[c].name = name
                      /\ flight[c].reply = "none" }

SendReturn(c, name, response) ==
    [op |-> "send_mcp_request", caller |-> c, name |-> name, response |-> response]

\* lines 80-100: refused up front, or the write raises (write = "broken_pipe":
\* the child exited after the poll), or the request is written
BeginSend(c, name, write) ==
    /\ flight[c].stage = "idle"
    /\ servers[name].server_type # "http"
    /\ IF ~CanDeliver(servers[name]) \/ write = "broken_pipe"
       THEN /\ ret' = SendReturn(c, name, send_mcp_request(servers[name], write).response)
            /\ servers' = ServersAfter(name, send_mcp_request(servers[name], write).alive)
            /\ wire' = << >>
            /\ UNCHANGED flight
       ELSE /\ flight' = [flight EXCEPT ![c] = [stage |-> "sent", name |-> name,
                                                reply |-> "none"]]
            /\ wire' = << [server |-> name, method |-> "ping"] >>
            /\ UNCHANGED << servers, ret >>
    /\ UNCHANGED << server_capabilities, rbacVars, executor, current_plan, execution_log,
                    backup_state, results, rollback, pc, invoked >>

\* the child writes its reply line to a request in flight
ChildAnswers(c, reply) ==
    /\ flight[c].stage = "sent"
    /\ flight[c].reply = "none"
    /\ servers[flight[c].name].alive
    /\ flight' = [flight EXCEPT ![c].reply = reply]
    /\ UNCHANGED << orchVars, wire, ret, executor, current_plan, execution_log,
                    backup_state, results, rollback, pc, invoked >>

\* a variant whose readline hands back a result when the pipe is at its end
ReadLine_Fabricates(reply) ==
    IF reply = "none" THEN ResultReply
    ELSE send_mcp_request(StdioServer("running", TRUE), reply).response

\* lines 103-110 on the line read: the child's reply, or "" at the end of the
\* pipe (reply = "none") once the child is gone
ReadLine(reply) ==
    IF reply = "none" THEN send_mcp_request(StdioServer("running", TRUE), "eof").response
    ELSE send_mcp_request(StdioServer("running", TRUE), reply).response

\* readline returns: a reply line is there, or the child is gone
EndSend(c) ==
    /\ flight[c].stage = "sent"
    /\ flight[c].reply # "none" \/ ~servers[flight[c].name].alive
    /\ ret' = SendReturn(c, flight[c].name, ReadLine(flight[c].reply))
    /\ flight' = [flight EXCEPT ![c] = NotSending]
    /\ wire' = << >>
    /\ UNCHANGED << orchVars, executor, current_plan, execution_log,
                    backup_state, results, rollback, pc, invoked >>

-----------------------------------------------------------------------------
(* The state after construction (MCPOrchestrator.__init__, executor        *)
(* __init__): no providers, no cache, no policy, role "user", enforcement  *)
(* off, no plan.                                                           *)

NoResults == [status |-> "none", steps_completed |-> 0, steps_failed |-> 0,
              step_results |-> << >>, rollback |-> None, rollback_performed |-> FALSE]

InitOrchestrator ==
    /\ servers = [n \in Names |-> Unregistered]
    /\ server_capabilities = [n \in Names |-> None]
    /\ config = NoRbacBlock
    /\ permissions = NoPermissions
    /\ current_role = "user"
    /\ rbac_enabled = FALSE
    /\ wire = << >>
    /\ ret = [op |-> "none"]

InitExecutor ==
    /\ current_plan = None
    /\ execution_log = << >>
    /\ backup_state = None
    /\ results = NoResults
    /\ rollback = None
    /\ pc = "idle"
    /\ invoked = << >>
    /\ flight = NoFlight

-----------------------------------------------------------------------------
(* SpecPerm: the permission engine under every role, policy and switch     *)

InitPerm ==
    /\ InitOrchestrator
    /\ InitExecutor
    /\ executor = "enhanced"

NextPerm ==
    \/ \E file \in ConfigFiles, doc \in load_permissions : LoadOrchestratorConfig(file, doc)
    \/ \E role \in Roles : SetRole(role)
    \/ \E doc \in load_permissions : ReloadPermissions(doc)
    \/ \E n \in Names, t \in Tools : CheckToolPermission(n, t)
    \/ \E file \in FileStates : LoadConfig(file)
    \/ \E file \in FileStates : LoadPermissions(file, [tool_permissions |-> TableA,
                                                        unknown_tools |-> "allow"])

SpecPerm == InitPerm /\ [][NextPerm]_vars

-----------------------------------------------------------------------------
(* SpecSup: the process supervisor and the protocol client                 *)

InitSup ==
    /\ InitOrchestrator
    /\ InitExecutor
    /\ executor = "enhanced"

\* the child a start spawns: it runs, or it has exited by the end of the pause
Spawned(name) ==
    IF ServerType(name) = "http" THEN {HttpServer("running")}
    ELSE {StdioServer("running", TRUE), StdioServer("running", FALSE)}

\* the orders in which get_available_capabilities may meet the providers
Orders == { << "jenkins", "kubernetes" >>, << "kubernetes", "jenkins" >> }

\* the discoveries enumerated under SpecSup: all four requests answered, the
\* handshake refused, the provider gone at the handshake, the tools missing
\* from the tools reply
FewDiscovery(srv) ==
    IF ~CanDeliver(srv) THEN {NoDiscovery}
    ELSE {NoDiscovery, [NoDiscovery EXCEPT !.init = "rpc_error"],
          [NoDiscovery EXCEPT !.init = Died(srv.server_type)],
          [NoDiscovery EXCEPT !.tools = "result_omit"]}

\* those of an operation that discovers only when no cache entry exists
FewReplies(name) ==
    IF IsCached(name) THEN {NoDiscovery} ELSE FewDiscovery(servers[name])

GatherReplies ==
    { [n \in Names |-> IF n = "jenkins" THEN a ELSE b] :
        a \in FewReplies("jenkins"), b \in FewReplies("kubernetes") }

\* the operator texts enumerated under SpecSup
FewTexts ==
    { << >>, << "service" >>, << "quickly", "staging" >>, << "Deploy" >>,
      << "Deploy", "development" >>, << "rollback", "Deploy", "development" >>,
      << "scale", "rollback", "staging" >>, << "urgently", "Deploy" >>,
      << "latest", "development" >>, ScenarioText }

NextSup ==
    \/ \E n \in Names : StartServer(n, FALSE, Unregistered, NoDiscovery)
    \/ \E n \in Names : \E srv \in Spawned(n) : \E r \in FewDiscovery(srv) :
          StartServer(n, TRUE, srv, r)
    \/ \E n \in Names, how \in StopOutcomes : StopServer(n, how)
    \/ \E n \in Names : ProcessExit(n)
    \/ \E n \in Names : GetServerStatus(n)
    \/ \E n \in Names : \E r \in FewDiscovery(servers[n]) : DiscoverServerTools(n, r)
    \/ \E n \in Names, m \in {"resources/read", "prompts/get"} :
          \E reply \in RepliesFor(servers[n]) : GetServerResource(n, m, reply)
    \/ \E n \in Names : \E reply \in RepliesFor(servers[n]) : SendMcpRequest(n, reply)
    \/ \E n \in Names : \E r \in FewReplies(n) :
          CallServerTool(n, "build_job", r, "result")
    \/ \E n \in Names, cat \in {"resources", "prompts"} : \E r \in FewReplies(n) :
          ListServerCategory(n, cat, r)
    \/ \E order \in Orders : \E rs \in GatherReplies : GetAvailableCapabilities(order, rs)
    \/ \E user_input \in FewTexts, order \in Orders : \E rs \in GatherReplies :
          CreatePlanFromUserInput(user_input, order, rs)

SpecSup == InitSup /\ [][NextSup]_vars

-----------------------------------------------------------------------------
(* SpecGate: operation calls and resource / prompt reads on started        *)
(* providers, under every configuration, policy document and role          *)

InitGate ==
    /\ InitOrchestrator
    /\ InitExecutor
    /\ executor = "enhanced"

\* the methods of get_server_resource and get_server_prompt
ReadMethods == {"resources/read", "prompts/get"}

NextGate ==
    \/ \E file \in ConfigFiles, doc \in load_permissions : LoadOrchestratorConfig(file, doc)
    \/ \E role \in Roles : SetRole(role)
    \/ \E n \in Names : \E srv \in Spawned(n) : StartServer(n, TRUE, srv, NoDiscovery)
    \/ \E n \in Names, m \in ReadMethods :
          \E reply \in RepliesFor(servers[n]) : GetServerResource(n, m, reply)
    \/ \E n \in Names, t \in Tools : CallServerTool(n, t, NoDiscovery, "result")

SpecGate == InitGate /\ [][NextGate]_vars

-----------------------------------------------------------------------------
(* SpecFlight: two caller threads send to the pipe provider kubernetes     *)
(* while it may answer, exit or be stopped.  readline returns once a line  *)
(* is there or the pipe is at its end: EndSend is weakly fair.             *)

InitFlight ==
    /\ servers = [n \in Names |-> IF n = "kubernetes" THEN StdioServer("running", TRUE)
                                  ELSE Unregistered]
    /\ server_capabilities = [n \in Names |-> None]
    /\ config = NoRbacBlock
    /\ permissions = NoPermissions
    /\ current_role = "user"
    /\ rbac_enabled = FALSE
    /\ wire = << >>
    /\ ret = [op |-> "none"]
    /\ InitExecutor
    /\ executor = "enhanced"

NextFlight ==
    \/ \E c \in Callers, w \in {"written", "broken_pipe"} : BeginSend(c, "kubernetes", w)
    \/ \E c \in Callers, reply \in {"result", "rpc_error", "bad_json"} :
          ChildAnswers(c, reply)
    \/ \E c \in Callers : EndSend(c)
    \/ \E how \in StopOutcomes : StopServer("kubernetes", how)
    \/ ProcessExit("kubernetes")

SpecFlight ==
    /\ InitFlight
    /\ [][NextFlight]_vars
    /\ \A c \in Callers : WF_vars(EndSend(c))

-----------------------------------------------------------------------------
(* SpecDisc: explicit discoveries under every combination of replies.  The *)
(* providers are in one of the states start, stop and exit leave them in,  *)
(* with nothing cached; a behaviour discovers until an entry is cached and *)
(* then discovers once more over that entry.                               *)

InitDisc ==
    /\ servers \in { [n \in Names |-> IF n = "jenkins" THEN h ELSE p] :
                       h \in {Unregistered, HttpServer("running"), HttpServer("stopped")},
                       p \in {Unregistered, StdioServer("running", TRUE),
                              StdioServer("running", FALSE),
                              StdioServer("stopped", FALSE)} }
    /\ server_capabilities = [n \in Names |-> None]
    /\ config = NoRbacBlock
    /\ permissions = NoPermissions
    /\ current_role = "user"
    /\ rbac_enabled = FALSE
    /\ wire = << >>
    /\ ret = [op |-> "none"]
    /\ InitExecutor
    /\ executor = "enhanced"

\* an explicit discovery, while the last one did not find an entry to replace
Rediscover ==
    /\ ret.op = "discover_server_capabilities" => ret.previous = None
    /\ \E n \in Names : \E r \in DiscoveryFor(servers[n]) : DiscoverServerTools(n, r)

NextDisc ==
    \/ Rediscover
    \/ ProcessExit("kubernetes")

SpecDisc == InitDisc /\ [][NextDisc]_vars

-----------------------------------------------------------------------------
(* SpecExec: a plan executor driving an orchestrator whose providers are   *)
(* started: jenkins (HTTP) with its capabilities cached, kubernetes (pipe) *)
(* without a cache entry (its discovery at start failed); the policy is    *)
(* TableA with default deny, under either switch and role.  The executor   *)
(* is fresh or still holds the log of an earlier plan.  A behaviour makes  *)
(* direct tool calls, then submits one plan and follows its execution.     *)

\* the replies enumerated while a plan runs
ExecReplies(srv) ==
    IF CanDeliver(srv)
    THEN {"result", "rpc_error", "text_error", Died(srv.server_type)}
    ELSE {"result"}

ExecDiscovery(name) ==
    IF ~IsCached(name) /\ CanDeliver(servers[name])
    THEN { r \in DiscoverReplies(servers[name].server_type) :
             r.tools = "result" /\ r.resources = "result" /\ r.prompts = "result" }
    ELSE {NoDiscovery}

\* the log an earlier plan of one successful step left behind
EarlierLog == << [success |-> TRUE, step_number |-> 1, error |-> NoError] >>

InitExec ==
    /\ servers = [n \in Names |-> IF n = "jenkins" THEN HttpServer("running")
                                  ELSE StdioServer("running", TRUE)]
    /\ server_capabilities = [n \in Names |-> IF n = "jenkins"
                                              THEN Advertised("jenkins") ELSE None]
    /\ rbac_enabled \in BOOLEAN
    /\ current_role \in ValidRoles
    /\ config = [has_rbac |-> TRUE, enabled |-> rbac_enabled, current_role |-> current_role]
    /\ permissions = [tool_permissions |-> TableA, unknown_tools |-> "deny"]
    /\ wire = << >>
    /\ ret = [op |-> "none"]
    /\ executor \in {"basic", "enhanced"}
    /\ current_plan = None
    /\ execution_log \in {<< >>, EarlierLog}
    /\ backup_state = None
    /\ results = NoResults
    /\ rollback = None
    /\ pc = "idle"
    /\ invoked = << >>
    /\ flight = NoFlight

\* the step the loop executes next, and the rollback step of the basic executor
StepServer == current_plan.steps[NextIndex].server_name

RollbackReplies ==
    IF executor = "basic" /\ current_plan.failure_handling
       /\ current_plan.steps[NextIndex].rollback_step # 0
    THEN {"result", "rpc_error"}
    ELSE {"result"}

\* the operator submits a plan to the executor
SubmitPlan ==
    /\ pc = "idle"
    /\ \E plan \in Plans, user_approval \in BOOLEAN : ExecutePlan(plan, user_approval)

\* the loop of execute_plan executes its next step
RunStep ==
    /\ pc = "loop"
    /\ NextIndex <= Len(current_plan.steps)
    /\ \E r \in ExecDiscovery(StepServer), reply \in ExecReplies(servers[StepServer]),
          reply2 \in RollbackReplies :
          ExecuteStep(r, reply, NoDiscovery, reply2)

\* the operator calls a tool directly, or changes the role, before the plan
DirectCall ==
    /\ pc = "idle"
    /\ \E n \in Names, t \in Tools :
          \E r \in ExecDiscovery(n), reply \in ExecReplies(servers[n]) :
             CallServerTool(n, t, r, reply)

ChangeRole ==
    /\ pc = "idle"
    /\ \E role \in Roles : SetRole(role)

\* the operator asks whether the active role may use a tool
CheckAccess ==
    /\ pc = "idle"
    /\ \E n \in Names, t \in Tools : CheckToolPermission(n, t)

NextExec ==
    \/ SubmitPlan
    \/ RunStep
    \/ ProtectTraffic
    \/ RollbackToPreviousVersion
    \/ VerifySystemStability
    \/ CleanupFailedResources
    \/ AnalyzeRootCause
    \/ GenerateFixRecommendations
    \/ ArchiveFailureLogs
    \/ NotifyTeam
    \/ FinishPlan
    \/ ProcessExit("kubernetes")
    \/ DirectCall
    \/ ChangeRole
    \/ CheckAccess

SpecExec == InitExec /\ [][NextExec]_vars

-----------------------------------------------------------------------------
(* SpecPlan: the planner's pure functions over bounded requests and        *)
(* capability dicts                                                        *)

MaxRisks == 3

\* step lists handed to _calculate_overall_risk
RiskSteps == UNION { [1..n -> [risk_level : RiskLevels]] : n \in 0..MaxRisks }

\* the tool lists a provider advertises
ToolLists == { << >>, << "build_job", "run_tests" >>, << "run_tests", "build_job" >>,
               << "deploy_app", "get_logs" >>, << "remove_canary", "deploy_app" >>,
               << "send_notification" >> }

\* capability dicts: no provider, one, or both in either order
CapabilityDicts ==
    {<< >>}
    \cup { << [server |-> n, tools |-> l] >> : n \in Names, l \in ToolLists }
    \cup UNION { { << [server |-> n, tools |-> l], [server |-> m, tools |-> k] >> :
                     m \in Names \ {n}, l \in ToolLists, k \in ToolLists } :
                   n \in Names }

InitPlan ==
    /\ InitOrchestrator
    /\ InitExecutor
    /\ executor = "enhanced"

\* a request is analysed
AnalyzeRequest ==
    /\ ret.op = "none"
    /\ \E text \in Texts : AnalyzeUserIntent(text)

\* a plan is made for the intent just analysed
PlanRequest ==
    /\ ret.op = "analyze_user_intent"
    /\ \E capabilities \in CapabilityDicts : CreateDeploymentPlan(ret.intent, capabilities)

\* the risk of a list of steps is computed
AssessSteps ==
    /\ ret.op = "none"
    /\ \E steps \in RiskSteps : CalculateOverallRisk(steps)

\* the environments a request names
Environments == {"production", "staging", "development"}

\* the risk of one tool is assessed
AssessTool ==
    /\ ret.op = "none"
    /\ \E tool_name \in PlannerTools, environment \in Environments :
          AssessToolRisk(tool_name, environment)

\* the plan just made is displayed
DisplayRequest ==
    /\ ret.op = "create_deployment_plan"
    /\ ~ret.out.raised
    /\ FormatPlanForDisplay(ret.out.plan)

NextPlan ==
    \/ AnalyzeRequest
    \/ PlanRequest
    \/ AssessSteps
    \/ AssessTool
    \/ DisplayRequest

SpecPlan == InitPlan /\ [][NextPlan]_vars

-----------------------------------------------------------------------------
(* Properties of the permission engine (SpecPerm).  ret holds the check    *)
(* just made; the policy, the switch and the role are those it read.       *)

Checked == ret.op = "check_tool_permission"

\* C8: with enforcement enabled, a check of an operation absent from the
\* policy document (its provider may be absent too) denies when the default
\* policy is deny and allows when it is allow, whatever the active role
C8_UnknownToolDefault ==
    (Checked /\ rbac_enabled /\ ~InPolicy(permissions, ret.server, ret.tool)) =>
        /\ permissions.unknown_tools = "deny" => ~ret.decision.allowed
        /\ permissions.unknown_tools = "allow" => ret.decision.allowed

\* an absent operation allowed by default allow, for a role no table lists
C8_Witness ==
    /\ Checked /\ rbac_enabled
    /\ ~InPolicy(permissions, ret.server, ret.tool)
    /\ permissions.unknown_tools = "allow"
    /\ current_role = "guest"
    /\ ret.decision.allowed

\* C9: with enforcement enabled, a check of an operation present in the
\* policy document allows if and only if the active role is in the
\* operation's allowed roles; the default policy plays no part
C9_ListedToolByRole ==
    (Checked /\ rbac_enabled /\ InPolicy(permissions, ret.server, ret.tool)) =>
        (ret.decision.allowed <=>
            current_role \in allowed_roles(permissions, ret.server, ret.tool))

\* a listed operation denied to a role outside its allowed roles although the
\* default policy is allow
C9_Witness ==
    /\ Checked /\ rbac_enabled
    /\ InPolicy(permissions, ret.server, ret.tool)
    /\ permissions.unknown_tools = "allow"
    /\ current_role \notin allowed_roles(permissions, ret.server, ret.tool)
    /\ ~ret.decision.allowed

\* C10: with enforcement disabled every check allows, whatever the role, the
\* provider, the operation, the policy document and the default policy
C10_DisabledAllows ==
    (Checked /\ ~rbac_enabled) => ret.decision.allowed

\* enforcement disabled over a loaded policy that would deny: the operation is
\* absent under default deny
C10_Witness ==
    /\ Checked /\ ~rbac_enabled
    /\ permissions # NoPermissions
    /\ ~InPolicy(permissions, ret.server, ret.tool)
    /\ permissions.unknown_tools = "deny"
    /\ ret.decision.allowed

-----------------------------------------------------------------------------
(* Properties of the supervisor (SpecSup) *)

\* C1: a stop of a registered provider that returns True (an HTTP provider, a
\* child that terminated in time, a child that was killed after the timeout)
\* leaves the status 'stopped'; a stop that returns False because terminating
\* raised leaves the registry as it was
C1_StopLeavesStopped ==
    /\ [](ret.op = "stop_server" /\ ret.value => servers[ret.name].status = "stopped")
    /\ [][(ret'.op = "stop_server" /\ ret'.path = "raises" /\ ret' # ret)
            => servers' = servers]_vars

\* a running child was killed after the timeout and is now stopped
C1_Witness ==
    /\ ret.op = "stop_server"
    /\ ret.path = "killed"
    /\ ret.value
    /\ servers[ret.name].status = "stopped"
    /\ ~servers[ret.name].alive

\* C1 as stated: whenever stop(name) of a registered provider returns, on any
\* path, the status is 'stopped'
C1_StopAlwaysStopped ==
    (ret.op = "stop_server" /\ IsRegistered(ret.name)) =>
        servers[ret.name].status = "stopped"

-----------------------------------------------------------------------------
(* Properties of plan execution (SpecExec).  A plan is being executed, or  *)
(* its execution has ended, when pc is not "idle"; the role, the switch    *)
(* and the policy do not change while it is.                               *)

InRun == pc # "idle"
Ended == pc \in {"returned", "raised"}
Logged == Len(execution_log)

\* the check made for step i of the plan
Permitted(i) ==
    Check(current_plan.steps[i].server_name, current_plan.steps[i].tool_name).allowed

StrictlyAscending(seq) ==
    \A i, j \in DOMAIN seq : i < j => seq[i] < seq[j]

\* the numbers of the steps the loop has handed to call_server_tool: the steps
\* attempted so far whose permission check allowed
LoopCalls == SelectSeq([i \in 1..Logged |-> i], Permitted)

\* the step the basic executor runs as rollback of the failed step, if any
RollbackCall ==
    IF /\ executor = "basic"
       /\ Logged > 0
       /\ ~execution_log[Logged].success
       /\ current_plan.failure_handling
       /\ current_plan.steps[Logged].rollback_step \in DOMAIN current_plan.steps
       /\ Permitted(current_plan.steps[Logged].rollback_step)
    THEN << current_plan.steps[Logged].rollback_step >>
    ELSE << >>

\* C2 (amended): the loop invokes the steps one at a time in ascending plan
\* order, each at most once, and attempts no step after a failed one; the
\* only invocation after a failure is the basic executor's single run of the
\* step named by the failed step's rollback_step
C2_SequentialUntilFailure ==
    InRun =>
        /\ invoked = LoopCalls \o RollbackCall
        /\ StrictlyAscending(LoopCalls)
        /\ \A j \in 1..Logged : execution_log[j].step_number = j
        /\ \A j \in 1..(Logged - 1) : execution_log[j].success

\* the basic executor ran steps 1 and 2, step 2 failed, and step 1 was run
\* again as its rollback step
C2_Witness ==
    /\ pc = "returned"
    /\ executor = "basic"
    /\ Logged = 2
    /\ ~execution_log[2].success
    /\ invoked = << 1, 2, 1 >>

\* C2 as stated: steps are invoked in strictly ascending order, each at most
\* once, and no step is invoked once a step has failed
C2_AscendingNoneAfterFailure ==
    InRun =>
        /\ StrictlyAscending(invoked)
        /\ \A j \in 1..Logged : ~execution_log[j].success =>
              \A i \in DOMAIN invoked : invoked[i] <= j

\* C3: an approved execution returns a result whose status is 'completed' iff
\* no step failed, and is otherwise 'failed' with the rollback outcome attached
C3_FinalStatus ==
    Ended =>
        /\ pc = "returned"
        /\ results.status = "completed" <=> results.steps_failed = 0
        /\ results.steps_failed > 0 =>
              results.status = "failed" /\ results.rollback # None

\* C4: the log and step_results hold one entry per attempted step, in plan
\* order; only the last can be a failure, so a first failure at step k leaves
\* exactly k entries, k-1 successes then the failure, steps_completed = k-1
\* and steps_failed = 1; steps_completed + steps_failed is the number of
\* entries and steps_failed is at most 1 throughout
C4_LogUpToFirstFailure ==
    InRun =>
        /\ results.step_results = execution_log
        /\ \A j \in 1..Logged : execution_log[j].step_number = j
        /\ \A j \in 1..(Logged - 1) : execution_log[j].success
        /\ results.steps_completed + results.steps_failed = Logged
        /\ results.steps_failed <= 1
        /\ (Logged > 0 /\ ~execution_log[Logged].success) =>
              /\ results.steps_completed = Logged - 1
              /\ results.steps_failed = 1
        /\ (Ended /\ results.steps_failed = 0) => Logged = Len(current_plan.steps)

\* a plan of three steps ended at the failure of its third step
C4_Witness ==
    /\ Ended
    /\ Len(current_plan.steps) = 3
    /\ Logged = 3
    /\ execution_log[1].success /\ execution_log[2].success
    /\ ~execution_log[3].success
    /\ results.steps_completed = 2
    /\ results.steps_failed = 1

EightPhases == << "Traffic Protection", "Rollback to Previous Version",
                  "System Stability Verification", "Resource Cleanup",
                  "Root Cause Analysis", "Fix Recommendations", "Log Archival",
                  "Team Notification" >>

PhaseNames == [i \in DOMAIN rollback.phases |-> rollback.phases[i].phase]

\* C5: on a failed step the failback controller appends one record per phase
\* in the fixed order of the eight phases, and has run all eight when the
\* execution ends
C5_EightPhasesInOrder ==
    (executor = "enhanced" /\ InRun /\ results.steps_failed > 0) =>
        /\ rollback # None
        /\ Len(rollback.phases) <= 8
        /\ PhaseNames = SubSeq(EightPhases, 1, Len(rollback.phases))
        /\ Ended => Len(rollback.phases) = 8

\* C6: whatever the form of the failed step's error, the failback controller
\* does not raise and its report holds all eight phase records
C6_FailbackNeverRaises ==
    /\ pc # "raised"
    /\ (executor = "enhanced" /\ pc = "returned" /\ results.steps_failed > 0) =>
          /\ results.rollback # None
          /\ Len(results.rollback.phases) = 8

\* the step the loop attempted last
LastStep == current_plan.steps[Logged]

\* C7: a tools/call request is delivered only for an operation the check
\* allows for the active role; a denied direct call returns the denial and
\* delivers nothing; a denied step is logged as a failure carrying the deny
\* reason and delivers nothing to its provider, not even a discovery request
C7_CheckedBeforeCall ==
    /\ \A i \in DOMAIN wire :
          wire[i].method = "tools/call" => Check(wire[i].server, wire[i].tool).allowed
    /\ (ret.op = "call_server_tool" /\ ~InRun /\ IsRegistered(ret.server)
        /\ ~Check(ret.server, ret.tool).allowed) =>
          /\ wire = << >>
          /\ ret.response = ErrorReply(ErrText("Access Denied"))
    /\ InRun =>
          /\ \A j \in 1..Logged : ~Permitted(j) =>
                /\ ~execution_log[j].success
                /\ execution_log[j].error =
                      ErrDenied(Check(current_plan.steps[j].server_name,
                                      current_plan.steps[j].tool_name).reason)
          /\ (Logged > 0 /\ ~Permitted(Logged)) =>
                \A i \in DOMAIN wire : wire[i].server # LastStep.server_name

\* the first step was allowed and delivered; the second was denied to the role,
\* was logged with the deny reason and delivered nothing
C7_Witness ==
    /\ InRun
    /\ Logged = 2
    /\ execution_log[1].success
    /\ ~Permitted(2)
    /\ execution_log[2].error.text = "Permission denied"
    /\ execution_log[2].error.reason = "does not have permission"
    /\ invoked = << 1 >>
    /\ wire = << >>

-----------------------------------------------------------------------------
(* Further properties of the permission engine and the protocol client *)

\* C11: a check changes neither the role, the switch, the policy, the
\* registry nor the capability cache and delivers no request; its decision is
\* the one the state determines, so a second check of the same operation in
\* the same state returns the same decision
C11_CheckIsPure ==
    /\ [][(ret'.op = "check_tool_permission" /\ ret' # ret) =>
             /\ UNCHANGED << servers, server_capabilities, config, permissions,
                             current_role, rbac_enabled >>
             /\ wire' = << >>]_vars
    /\ [](Checked => ret.decision = Check(ret.server, ret.tool))
    /\ [][(Checked /\ ret'.op = "check_tool_permission"
           /\ ret'.server = ret.server /\ ret'.tool = ret.tool)
            => ret'.decision = ret.decision]_vars

\* a check that denied, made while providers run and a capability entry is cached
C11_Witness ==
    /\ Checked
    /\ ~ret.decision.allowed
    /\ servers[ret.server].status = "running"
    /\ server_capabilities["jenkins"] # None
    /\ wire = << >>

\* the conditions under which a request cannot be answered: an unknown or
\* stopped provider, a dead child, and the transport failures
SendFails(srv, reply) ==
    \/ srv.server_type = "none"
    \/ srv.status # "running"
    \/ srv.server_type = "stdio" /\ ~srv.alive
    \/ reply \in {"broken_pipe", "eof", "bad_json", "connect_error", "status_error"}

\* C12: send returns an envelope and never raises; for an unknown provider, a
\* stopped provider, a dead child, a broken pipe, an empty read, a reply that
\* is not JSON and an HTTP connection or status error the envelope carries an
\* error marker
C12_SendReturnsEnvelope ==
    ret.op = "send_mcp_request" =>
        /\ ret.response.kind \in {"result", "neither", "error"}
        /\ SendFails(ret.srv, ret.reply) =>
              ret.response.kind = "error" /\ ret.response.error.type = "str"

\* the write to a running child's pipe broke and send returned an error envelope
C12_Witness ==
    /\ ret.op = "send_mcp_request"
    /\ ret.srv.server_type = "stdio"
    /\ ret.srv.status = "running" /\ ret.srv.alive
    /\ ret.reply = "broken_pipe"
    /\ ret.response.kind = "error"
    /\ ~servers[ret.name].alive

-----------------------------------------------------------------------------
(* Further properties of plan execution (SpecExec) *)

Pending == ret.op = "execute_plan" /\ ret.status = "pending_approval"

\* C13: an execute_plan call without approval returns 'pending_approval' and
\* changes neither the current plan, the execution log nor the backup state;
\* it executes no step, takes no backup snapshot and delivers no request
C13_NothingWithoutApproval ==
    /\ [][(ret'.op = "execute_plan" /\ ret'.status = "pending_approval" /\ ret' # ret) =>
             /\ UNCHANGED << current_plan, execution_log, backup_state, results,
                             invoked, pc, servers, server_capabilities >>
             /\ wire' = << >>]_vars
    /\ [](Pending =>
             /\ pc = "idle"
             /\ current_plan = None
             /\ backup_state = None
             /\ invoked = << >>
             /\ wire = << >>)
    /\ [](pc = "idle" => backup_state = None /\ invoked = << >> /\ current_plan = None)

\* an unapproved call on an executor that still holds the log of an earlier plan
C13_Witness ==
    /\ Pending
    /\ execution_log = EarlierLog
    /\ backup_state = None
    /\ pc = "idle"

-----------------------------------------------------------------------------
(* Properties of configuration loading (SpecPerm).                         *)

\* C24: a missing or invalid registry configuration file loads, without
\* raising, as a registry with no providers; a missing or invalid policy file
\* loads, without raising, as a policy with no entries and default deny, under
\* which every check denies when enforcement is enabled
C24_DegradesToEmpty ==
    /\ (ret.op = "load_config" /\ ret.file # "valid") =>
           /\ ~ret.out.raised
           /\ ret.out.mcpServers = {}
    /\ (ret.op = "load_permissions" /\ ret.file # "valid") =>
           /\ ~ret.out.raised
           /\ ret.out.permissions = FallbackPermissions
           /\ \A role \in Roles, n \in Names, t \in Tools :
                 ~check_tool_permission(TRUE, role, ret.out.permissions, n, t).allowed

-----------------------------------------------------------------------------
(* Properties of discovery (SpecDisc).  ret holds the discover call just   *)
(* made, with the replies it met and the entry it found cached; wire holds *)
(* the requests it delivered, in order.                                    *)

Discovering == ret.op = "discover_server_capabilities"

DiscoverOrder == << "initialize", "tools/list", "resources/list", "prompts/list" >>

Position(method) == CHOOSE k \in DOMAIN DiscoverOrder : DiscoverOrder[k] = method

\* the reply that answered the request of the given method
ReplyTo(method) ==
    CASE method = "initialize"     -> ret.replies.init
      [] method = "tools/list"     -> ret.replies.tools
      [] method = "resources/list" -> ret.replies.resources
      [] method = "prompts/list"   -> ret.replies.prompts

OnWire(method) == \E i \in DOMAIN wire : wire[i].method = method

\* C17: discover sends initialize, tools/list, resources/list, prompts/list in
\* that order, to the provider named, each after the previous reply was read
\* (nothing follows a request whose reply was the provider's exit); when the
\* handshake returns an error no list request is sent and that error is returned
C17_DiscoverOrder ==
    Discovering =>
        /\ \A i \in DOMAIN wire :
              /\ wire[i].server = ret.name
              /\ wire[i].method \in {DiscoverOrder[k] : k \in DOMAIN DiscoverOrder}
              /\ ReplyTo(wire[i].method) = "eof" => i = Len(wire)
        /\ \A i, j \in DOMAIN wire :
              i < j => Position(wire[i].method) < Position(wire[j].method)
        /\ ret.error =>
              /\ ret.response.kind = "error"
              /\ \A i \in DOMAIN wire : wire[i].method = "initialize"
              /\ (wire # << >> /\ ret.replies.init = "rpc_error") =>
                     ret.response = ErrorReply(ErrObject)
        /\ (~ret.error /\ \A k \in DOMAIN DiscoverOrder :
                             ReplyTo(DiscoverOrder[k]) \notin {"eof", "connect_error"})
           => [i \in DOMAIN wire |-> wire[i].method] = DiscoverOrder

\* a discovery that delivered all four requests
C17_Witness ==
    /\ Discovering
    /\ ~ret.error
    /\ [i \in DOMAIN wire |-> wire[i].method] = DiscoverOrder

\* a handshake answered by an error: only the initialize request was delivered
C17_HandshakeRefused ==
    /\ Discovering
    /\ ret.error
    /\ ret.replies.init = "rpc_error"
    /\ wire = << [server |-> ret.name, method |-> "initialize"] >>

\* the category arrived: its list request was delivered and the reply carries it
Returned(cat) == OnWire(cat \o "/list") /\ ret.replies[cat] = "result"

\* the aggregate of the discover call just made
Aggregate ==
    [cat \in {"tools", "resources", "prompts"} |->
        IF Returned(cat) THEN Advertised(ret.name)[cat] ELSE << >>]

\* C18: after a successful handshake discover succeeds whichever list calls
\* fail or omit their category; those categories are cached as empty lists, the
\* others exactly as the provider returned them
C18_CategoriesIndependent ==
    (Discovering /\ ~ret.error) =>
        /\ ret.response = Capabilities
        /\ IsCached(ret.name)
        /\ server_capabilities[ret.name] = Aggregate

\* tools returned, resources refused, prompts omitted
C18_Witness ==
    /\ Discovering
    /\ ~ret.error
    /\ ret.name = "kubernetes"
    /\ ret.replies.tools = "result"
    /\ ret.replies.resources = "rpc_error"
    /\ ret.replies.prompts = "result_omit"
    /\ Len(wire) = 4
    /\ server_capabilities["kubernetes"] =
           [tools |-> << "deploy_app", "build_job" >>, resources |-> << >>,
            prompts |-> << >>]

\* C19 as stated: after every discover call that found an entry cached, the
\* entry is exactly what this call obtained
C19_EveryDiscoverReplaces ==
    (Discovering /\ ret.previous # None) => server_capabilities[ret.name] = Aggregate

\* C19: after a discover call that got past the handshake the cached entry is
\* exactly the aggregate of this call, whatever was cached before; a discover
\* call that returns an error leaves the entry as it was
C19_ReplacedOrKept ==
    Discovering =>
        IF ret.error THEN server_capabilities[ret.name] = ret.previous
        ELSE server_capabilities[ret.name] = Aggregate

\* an entry with tools is replaced by one without
C19_Witness ==
    /\ Discovering
    /\ ~ret.error
    /\ ret.previous # None
    /\ ret.previous.tools # << >>
    /\ server_capabilities[ret.name].tools = << >>
    /\ server_capabilities[ret.name] = Aggregate

\* C21: a discover call that follows a discover call of the same provider and
\* meets the same replies (the provider advertises what it advertised) leaves
\* the cached entry as the first call left it
C21_DiscoverIdempotent ==
    [][(/\ Discovering
        /\ ~ret.error
        /\ ret'.op = "discover_server_capabilities"
        /\ ret'.name = ret.name
        /\ ret'.replies = ret.replies
        /\ ret' # ret)
       => /\ ret'.previous = server_capabilities[ret.name]
          /\ server_capabilities' = server_capabilities]_vars

\* the second of two discoveries that delivered all four requests: the entry is
\* the one the first cached
C21_Witness ==
    /\ Discovering
    /\ ~ret.error
    /\ Len(wire) = 4
    /\ ret.previous # None
    /\ ret.previous.tools # << >>
    /\ server_capabilities[ret.name] = ret.previous

-----------------------------------------------------------------------------
(* Properties of the capability cache (SpecSup).                           *)

HandshakeMethods == {DiscoverOrder[k] : k \in DOMAIN DiscoverOrder}

\* a handshake or enumeration request to name is among the requests
DiscoveryTraffic(requests, name) ==
    \E i \in DOMAIN requests :
        requests[i].server = name /\ requests[i].method \in HandshakeMethods

\* the operations that run a discovery
Discoverers == {"start_server", "discover_server_capabilities", "call_server_tool",
                "list_server_resources", "list_server_prompts",
                "get_available_capabilities", "create_plan_from_user_input"}

\* C20: call_server_tool (once the provider is registered and the call is
\* permitted), list_server_resources / list_server_prompts and the planner's
\* get_available_capabilities (for each running provider) call discover exactly
\* when no entry is cached for the provider; a cached entry, however old, is
\* used as it is and no handshake or enumeration request is sent.  The cache
\* changes only in a step that runs a discovery of that provider.
C20_DiscoverIffUncached ==
    /\ [][(ret'.op = "call_server_tool" /\ ret' # ret /\ IsRegistered(ret'.server)) =>
             /\ ret'.discovered <=> ~IsCached(ret'.server)
             /\ IsCached(ret'.server) =>
                   /\ server_capabilities' = server_capabilities
                   /\ ~DiscoveryTraffic(wire', ret'.server)]_vars
    /\ [][(ret'.op \in {"list_server_resources", "list_server_prompts"} /\ ret' # ret) =>
             /\ ret'.discovered <=> ~IsCached(ret'.name)
             /\ IsCached(ret'.name) =>
                   /\ server_capabilities' = server_capabilities
                   /\ wire' = << >>
                   /\ ret'.listed \in {server_capabilities[ret'.name].resources,
                                       server_capabilities[ret'.name].prompts}]_vars
    /\ [][(ret'.op = "get_available_capabilities" /\ ret' # ret) =>
             /\ ret'.discovered =
                   {n \in Names : servers[n].status = "running" /\ ~IsCached(n)}
             /\ \A n \in Names : IsCached(n) =>
                   /\ server_capabilities'[n] = server_capabilities[n]
                   /\ ~DiscoveryTraffic(wire', n)
             /\ \A i \in DOMAIN ret'.capabilities :
                   IsCached(ret'.capabilities[i].server) =>
                      ret'.capabilities[i].tools =
                         server_capabilities[ret'.capabilities[i].server].tools]_vars
    /\ [][\A n \in Names : server_capabilities'[n] # server_capabilities[n] =>
             /\ ret'.op \in Discoverers
             /\ DiscoveryTraffic(wire', n)]_vars

\* the resources of a stopped provider are listed from the entry cached while
\* it ran
C20_Witness ==
    /\ ret.op = "list_server_resources"
    /\ ~ret.discovered
    /\ servers[ret.name].status = "stopped"
    /\ IsCached(ret.name)
    /\ ret.listed = << "jenkins://jobs" >>
    /\ wire = << >>

\* C25 as stated: start returns success exactly when, on return, the provider
\* is registered with status running
C25_SuccessIffRunning ==
    ret.op = "start_server" =>
        (ret.value <=> (IsRegistered(ret.name) /\ servers[ret.name].status = "running"))

\* C25: a start that returns success leaves the provider registered with
\* status running under its transport; a start that returns failure (no URL,
\* spawn error, provider already running) leaves the registry and the
\* capability cache as they were and sends nothing
C25_StartOutcome ==
    /\ [](ret.op = "start_server" /\ ret.value =>
             /\ IsRegistered(ret.name)
             /\ servers[ret.name].status = "running"
             /\ servers[ret.name].server_type = ServerType(ret.name))
    /\ [][(ret'.op = "start_server" /\ ret' # ret /\ ~ret'.value) =>
             /\ UNCHANGED << servers, server_capabilities >>
             /\ wire' = << >>]_vars

\* a start refused because the provider already runs: it keeps running, with
\* its capabilities cached
C25_Witness ==
    /\ ret.op = "start_server"
    /\ ~ret.value
    /\ servers[ret.name].status = "running"
    /\ IsCached(ret.name)

-----------------------------------------------------------------------------
(* Properties of requests in flight (SpecFlight).                          *)

\* C22: no provider ever has more than one request written to it and not yet
\* answered, however the callers of send_mcp_request interleave
C22_OneOutstanding ==
    \A n \in Names : Cardinality(Outstanding(n)) <= 1

\* caller c is inside a send whose request the child has not answered, and the
\* child is gone
Orphaned(c) ==
    /\ flight[c].stage = "sent"
    /\ flight[c].reply = "none"
    /\ ~servers[flight[c].name].alive

\* C23: a stop or exit of the pipe provider leaves a send in flight pending; a
\* send whose request was unanswered when it returns returns, with the child
\* gone, a transport error envelope; a result is returned only if the child
\* wrote it; and a send whose child is gone does return
C23_PendingSendFails ==
    /\ [][servers' # servers => flight' = flight]_vars
    /\ [][\A c \in Callers :
            (flight[c].stage = "sent" /\ flight'[c].stage = "idle") =>
               /\ ret'.op = "send_mcp_request"
               /\ ret'.caller = c
               /\ flight[c].reply = "none" =>
                     /\ ~servers[flight[c].name].alive
                     /\ ret'.response.kind = "error"
                     /\ ret'.response.error.type = "str"
               /\ ret'.response.kind = "result" => flight[c].reply = "result"]_vars
    /\ \A c \in Callers : Orphaned(c) ~> (flight[c].stage = "idle")

\* the send of a request that was in flight when the provider was stopped has
\* returned "No response from server"
C23_Witness ==
    /\ ret.op = "send_mcp_request"
    /\ ret.response = ErrorReply(ErrText("No response from server"))
    /\ servers[ret.name].status = "stopped"
    /\ flight[ret.caller].stage = "idle"

-----------------------------------------------------------------------------
(* Properties of the planner (SpecPlan).  ret holds the call just made.    *)

Produced == ret.op = "create_deployment_plan" /\ ~ret.out.raised

\* C14: every plan the planner produces requires approval when its
\* environment is production, and when at least one of its steps carries
\* critical or high risk, whatever its other fields are
C14_ApprovalRequired ==
    Produced =>
        /\ ret.intent.environment = "production" => ret.out.plan.approval_required
        /\ (\E i \in DOMAIN ret.out.plan.steps :
               ret.out.plan.steps[i].risk_level \in {"critical", "high"})
           => ret.out.plan.approval_required

\* a plan outside production with a critical step, approval required
C14_Witness ==
    /\ Produced
    /\ ret.intent.environment # "production"
    /\ \E i \in DOMAIN ret.out.plan.steps : ret.out.plan.steps[i].risk_level = "critical"
    /\ ret.out.plan.approval_required

\* low < medium < high < critical
Rank(risk) ==
    CASE risk = "low" -> 0 [] risk = "medium" -> 1 [] risk = "high" -> 2
      [] risk = "critical" -> 3

\* C15: the overall risk of a list of steps is the maximum step risk under
\* low < medium < high < critical, low for the empty list, whatever the order
\* of the steps
C15_OverallRiskIsMax ==
    ret.op = "calculate_overall_risk" =>
        /\ ret.steps = << >> => ret.overall_risk = "low"
        /\ \A i \in DOMAIN ret.steps : Rank(ret.steps[i].risk_level) <= Rank(ret.overall_risk)
        /\ ret.steps # << >> =>
               \E i \in DOMAIN ret.steps : ret.steps[i].risk_level = ret.overall_risk

\* a list whose highest risk is neither first nor last
C15_Witness ==
    /\ ret.op = "calculate_overall_risk"
    /\ Len(ret.steps) = 3
    /\ ret.steps[1].risk_level = "medium"
    /\ ret.steps[2].risk_level = "high"
    /\ ret.steps[3].risk_level = "low"
    /\ ret.overall_risk = "high"

\* C16: "urgently redeploy payment-service in production" is analysed to
\* urgency urgent, environment production, target "payment-service" and
\* action deploy, and the plan made for it follows the hotfix pattern
C16_ScenarioIntent ==
    /\ (ret.op = "analyze_user_intent" /\ ret.text = ScenarioText) =>
           ret.intent = [action |-> "deploy", environment |-> "production",
                         urgency |-> "urgent", target |-> "payment-service"]
    /\ (ret.op = "create_deployment_plan" /\ ret.intent = analyze_user_intent(ScenarioText)) =>
           ret.pattern = "hotfix_deployment"

OneAbove(risk) ==
    CASE risk = "low"      -> "medium"
      [] risk = "medium"   -> "high"
      [] risk = "high"     -> "critical"
      [] risk = "critical" -> "critical"

\* C27: for a tool whose name has a keyword of the risk table, the risk
\* assessed outside production is the table's risk and the risk assessed for
\* production is one level above it
C27_ProductionOneAbove ==
    (ret.op = "assess_tool_risk" /\ ret.keyword # 0) =>
        ret.risk = IF ret.environment = "production"
                   THEN OneAbove(risk_matrix[ret.keyword].risk)
                   ELSE risk_matrix[ret.keyword].risk

\* the stages of a list of steps
Stages(steps) == { steps[k].stage : k \in DOMAIN steps }

\* C28: the pattern of a plan is the hotfix pattern when the urgency is
\* urgent, whatever the environment; otherwise the production pattern for
\* production, the staging pattern for staging and build-test-deploy for any
\* other environment; the action and the target play no part, and the steps
\* of the plan are stages of that pattern
C28_PatternByUrgencyThenEnvironment ==
    ret.op = "create_deployment_plan" =>
        /\ ret.intent.urgency = "urgent" => ret.pattern = "hotfix_deployment"
        /\ (ret.intent.urgency # "urgent" /\ ret.intent.environment = "production")
              => ret.pattern = "production_deployment"
        /\ (ret.intent.urgency # "urgent" /\ ret.intent.environment = "staging")
              => ret.pattern = "staging_deployment"
        /\ (ret.intent.urgency # "urgent"
              /\ ret.intent.environment \notin {"production", "staging"})
              => (ret.pattern = "generic"
                  /\ deployment_patterns[ret.pattern] = << "build", "test", "deploy" >>)
        /\ ~ret.out.raised =>
              Stages(ret.out.plan.steps) \subseteq
                  { deployment_patterns[ret.pattern][i] :
                        i \in DOMAIN deployment_patterns[ret.pattern] }

\* an urgent request for production is planned by the hotfix pattern
C28_Witness ==
    /\ ret.op = "create_deployment_plan"
    /\ ret.intent.urgency = "urgent"
    /\ ret.intent.environment = "production"
    /\ ret.pattern = "hotfix_deployment"
    /\ ~ret.out.raised
    /\ "critical_tests" \in Stages(ret.out.plan.steps)

-----------------------------------------------------------------------------
(* Properties of create_plan_from_user_input (SpecSup).  ret holds the     *)
(* call just returned; the registry and the cache are those it left.       *)

\* the providers with status running, in the order the registry is iterated
Searched(order) == SelectSeq(order, LAMBDA n : servers[n].status = "running")

\* the tools cached for the i-th provider searched
ToolsOf(order, i) == Listed(server_capabilities, Searched(order)[i], "tools")

\* the places (provider, tool) whose tool name or description has the keyword
Hits(order, stage) ==
    UNION { { << i, j >> : j \in { m \in DOMAIN ToolsOf(order, i) :
                                     stage \in NameHas(ToolsOf(order, i)[m])
                                               \cup DescHas(ToolsOf(order, i)[m]) } } :
            i \in DOMAIN Searched(order) }

IsFirst(h, hits) ==
    \A g \in hits : h[1] < g[1] \/ (h[1] = g[1] /\ h[2] <= g[2])

\* C29: a stage of the pattern gives a step exactly when some tool of a
\* running provider has the stage keyword in its name or description; the
\* step takes the first such tool, providers in registry order and tools in
\* list order; providers that are not running are not searched; the steps
\* follow the order of the stages
C29_FirstMatchPerStage ==
    (ret.op = "create_plan_from_user_input" /\ ret.out.kind = "plan") =>
        /\ \A p \in DOMAIN deployment_patterns[PatternName(ret.intent)] :
              (Hits(ret.order, deployment_patterns[PatternName(ret.intent)][p]) # {})
                  <=> (deployment_patterns[PatternName(ret.intent)][p]
                          \in Stages(ret.out.plan.steps))
        /\ \A k \in DOMAIN ret.out.plan.steps :
              /\ servers[ret.out.plan.steps[k].server_name].status = "running"
              /\ \E h \in Hits(ret.order, ret.out.plan.steps[k].stage) :
                    /\ IsFirst(h, Hits(ret.order, ret.out.plan.steps[k].stage))
                    /\ ret.out.plan.steps[k].server_name = Searched(ret.order)[h[1]]
                    /\ ret.out.plan.steps[k].tool_name = ToolsOf(ret.order, h[1])[h[2]]
        /\ \A k, l \in DOMAIN ret.out.plan.steps :
              k < l => \E p, q \in DOMAIN deployment_patterns[PatternName(ret.intent)] :
                          /\ p < q
                          /\ deployment_patterns[PatternName(ret.intent)][p]
                                = ret.out.plan.steps[k].stage
                          /\ deployment_patterns[PatternName(ret.intent)][q]
                                = ret.out.plan.steps[l].stage

\* both providers run and advertise a build tool; kubernetes is met first and
\* its second tool builds; no tool tests
C29_Witness ==
    /\ ret.op = "create_plan_from_user_input"
    /\ ret.out.kind = "plan"
    /\ ret.order[1] = "kubernetes"
    /\ Len(ret.out.plan.steps) = 2
    /\ ret.out.plan.steps[1].stage = "build"
    /\ ret.out.plan.steps[1].server_name = "kubernetes"
    /\ << 2, 1 >> \in Hits(ret.order, "build")
    /\ Hits(ret.order, "test") = {}

\* the keyword groups of the action, in the order they are tried
ActionGroups ==
    << [action |-> "deploy",   keywords |-> {"deploy", "deployment", "release"}],
       [action |-> "rollback", keywords |-> {"rollback", "revert"}],
       [action |-> "scale",    keywords |-> {"scale", "scaling"}],
       [action |-> "build",    keywords |-> {"build"}],
       [action |-> "test",     keywords |-> {"test"}] >>

\* the groups a text matches
Matching(text) == { g \in DOMAIN ActionGroups : HasAny(text, ActionGroups[g].keywords) }

\* C30 as stated: the action is that of the first group the text matches; a
\* text matching no group, and a text matching several, has the unresolved
\* action, for which no plan is made and nothing is sent
C30_AmbiguousUnresolved ==
    ret.op = "create_plan_from_user_input" =>
        /\ Cardinality(Matching(ret.user_input)) = 1 =>
              \E g \in Matching(ret.user_input) : ret.intent.action = ActionGroups[g].action
        /\ Cardinality(Matching(ret.user_input)) # 1 => ret.intent.action = "none"
        /\ ret.intent.action = "none" => (ret.out.kind = "unable" /\ wire = << >>)

\* C30: the action is that of the first keyword group the text matches (also
\* when it matches several) and unresolved when it matches none; for an
\* unresolved action no plan is made, nothing is sent and the registry and
\* the cache stay as they were
C30_FirstGroupOrUnresolved ==
    /\ [](ret.op = "create_plan_from_user_input" =>
             /\ (Matching(ret.user_input) = {}) <=> (ret.intent.action = "none")
             /\ \A g \in Matching(ret.user_input) :
                   (\A m \in Matching(ret.user_input) : g <= m)
                       => ret.intent.action = ActionGroups[g].action
             /\ (ret.intent.action = "none") <=> (ret.out.kind = "unable")
             /\ ret.out.kind = "unable" => (ret.out.plan = None /\ wire = << >>))
    /\ [][(ret'.op = "create_plan_from_user_input" /\ ret' # ret
              /\ ret'.intent.action = "none")
            => UNCHANGED << servers, server_capabilities >>]_vars

\* a text matching no group is refused while a running provider has no cache
\* entry (a plan would have discovered it)
C30_Witness ==
    /\ ret.op = "create_plan_from_user_input"
    /\ ret.intent.action = "none"
    /\ ret.user_input # << >>
    /\ \E n \in Names : servers[n].status = "running" /\ CanDeliver(servers[n]) /\ ~IsCached(n)

-----------------------------------------------------------------------------
(* Properties of the intent analysis (SpecPlan).  ret holds the text       *)
(* analysed and the intent returned.                                       *)

\* the keyword sets of the environment, as substrings of the lower-cased text
ProductionWords == {"prod", "production"}
StagingWords == {"staging", "stage"}
DevelopmentWords == {"dev", "development"}

\* C31 as stated: every text with a staging keyword has environment staging,
\* every text with a development keyword and no staging keyword has
\* development, and only a text with neither has production
C31_StagingAlwaysOverrides ==
    ret.op = "analyze_user_intent" =>
        /\ HasAny(ret.text, StagingWords) => ret.intent.environment = "staging"
        /\ (HasAny(ret.text, DevelopmentWords) /\ ~HasAny(ret.text, StagingWords))
              => ret.intent.environment = "development"
        /\ ret.intent.environment = "production"
              => ~HasAny(ret.text, StagingWords \cup DevelopmentWords)

\* C31: the environment is production when the text has a production keyword
\* or no environment keyword at all; staging when it has a staging keyword
\* and no production keyword; development when it has a development keyword
\* and neither of the others
C31_EnvironmentByKeyword ==
    ret.op = "analyze_user_intent" =>
        /\ ret.intent.environment \in {"production", "staging", "development"}
        /\ ret.intent.environment = "staging" <=>
              (HasAny(ret.text, StagingWords) /\ ~HasAny(ret.text, ProductionWords))
        /\ ret.intent.environment = "development" <=>
              /\ HasAny(ret.text, DevelopmentWords)
              /\ ~HasAny(ret.text, StagingWords \cup ProductionWords)

\* a text naming staging and production is taken for production
C31_Witness ==
    /\ ret.op = "analyze_user_intent"
    /\ HasAny(ret.text, StagingWords)
    /\ HasAny(ret.text, ProductionWords)
    /\ ret.intent.environment = "production"

EmergencyWords == {"urgent", "emergency", "hotfix", "critical", "now", "asap"}
SpeedWords == {"fast", "quick"}

\* C32: the urgency is urgent exactly when the text has an emergency
\* keyword (also when it has a speed keyword too), fast exactly when it has
\* a speed keyword and no emergency keyword, and normal otherwise
C32_UrgencyByKeyword ==
    ret.op = "analyze_user_intent" =>
        /\ ret.intent.urgency = "urgent" <=> HasAny(ret.text, EmergencyWords)
        /\ ret.intent.urgency = "fast" <=>
              (HasAny(ret.text, SpeedWords) /\ ~HasAny(ret.text, EmergencyWords))
        /\ ret.intent.urgency = "normal" <=>
              ~HasAny(ret.text, SpeedWords \cup EmergencyWords)

\* a text with a speed keyword and an emergency keyword is urgent
C32_Witness ==
    /\ ret.op = "analyze_user_intent"
    /\ HasAny(ret.text, SpeedWords)
    /\ HasAny(ret.text, EmergencyWords)
    /\ ret.intent.urgency = "urgent"

\* the token at position i is an application noun
IsNoun(text, i) ==
    Lower(text[i]) \in {"code", "app", "application", "service", "microservice"}

\* C33: the target is the token right after the first token that is an
\* application noun, as it was written; it is unset when no token is one or
\* when the first one is the last token, whatever follows or precedes
C33_TargetAfterFirstNoun ==
    ret.op = "analyze_user_intent" =>
        /\ (\A i \in DOMAIN ret.text : ~IsNoun(ret.text, i)) => ret.intent.target = "none"
        /\ \A i \in DOMAIN ret.text :
              (IsNoun(ret.text, i) /\ \A j \in 1..(i - 1) : ~IsNoun(ret.text, j)) =>
                  /\ i < Len(ret.text) => ret.intent.target = ret.text[i + 1]
                  /\ i = Len(ret.text) => ret.intent.target = "none"

\* two application nouns: the token after the first is the target, and the
\* second noun plays no part
C33_Witness ==
    /\ ret.op = "analyze_user_intent"
    /\ Len(ret.text) = 3
    /\ IsNoun(ret.text, 1)
    /\ IsNoun(ret.text, 3)
    /\ ret.intent.target = ret.text[2]
    /\ ret.intent.target = "Deploy"

-----------------------------------------------------------------------------
(* Properties of the backup snapshot of the enhanced executor (SpecExec)   *)

\* C34: the backup snapshot is written by the step that starts an approved
\* execution and by no other: it is there, computed from the plan, before
\* any step is invoked, and no step and no failback phase changes it; the
\* rollback phase reports the location it read from it
C34_BackupOnceBeforeSteps ==
    /\ [][backup_state' # backup_state =>
             /\ executor = "enhanced"
             /\ pc = "idle" /\ pc' = "loop"
             /\ invoked' = << >> /\ execution_log' = << >>
             /\ backup_state' = create_pre_deployment_backup(current_plan')]_vars
    /\ []((executor = "enhanced" /\ pc # "idle") =>
             backup_state = create_pre_deployment_backup(current_plan))
    /\ [][(pc = "phase2" /\ pc' = "phase3") =>
             /\ backup_state' = backup_state
             /\ rollback'.phases[Len(rollback'.phases)].detail
                   = backup_state.first_location]_vars

\* a plan that deploys to kubernetes failed and went through the rollback
\* phase with its four-item snapshot
C34_Witness ==
    /\ executor = "enhanced"
    /\ rollback # None
    /\ Len(rollback.phases) >= 2
    /\ invoked # << >>
    /\ backup_state # None
    /\ backup_state.items_backed_up = 4
    /\ rollback.phases[2].detail = "kubernetes_deployment"

-----------------------------------------------------------------------------
(* Properties of the plans made (SpecPlan) *)

\* the sum of the minimum minutes of the stages of the steps from i on, a
\* duration below a minute counting for none
RECURSIVE StageMinimums(_, _)
StageMinimums(steps, i) ==
    IF i > Len(steps) THEN 0
    ELSE (IF MinMinutes(estimate_duration(steps[i].stage)) < 0 THEN 0
          ELSE MinMinutes(estimate_duration(steps[i].stage)))
         + StageMinimums(steps, i + 1)

\* C35: create_deployment_plan returns a plan for every intent and every
\* capability set, and the lower bound of the plan's duration estimate is the
\* sum of the minimum durations of the stages of its steps
C35_TotalDurationLowerBound ==
    ret.op = "create_deployment_plan" =>
        /\ ~ret.out.raised
        /\ ret.out.plan.min_total = StageMinimums(ret.out.plan.steps, 1)

-----------------------------------------------------------------------------
(* Properties of the supervisor's children (SpecSup).  The registry holds  *)
(* one child per name, so a second child of a name is alive exactly when a *)
(* start replaces an entry whose child is alive.                           *)

\* C36: a provider whose status is not running has no live child; a start
\* on a provider with status running returns failure and leaves the entry
\* (and its child) as it is; hence a start that spawns never replaces a live
\* child, and at most one child per name is alive
C36_OneChildPerName ==
    /\ [](\A n \in Names : servers[n].status # "running" => ~servers[n].alive)
    /\ [](\A n \in Names : servers[n].alive => servers[n].server_type = "stdio")
    /\ [][(ret'.op = "start_server" /\ ret' # ret
              /\ servers[ret'.name].status = "running") =>
             (~ret'.value /\ servers' = servers)]_vars
    /\ [][\A n \in Names :
             servers[n].alive =>
                 ~(ret'.op = "start_server" /\ ret' # ret /\ ret'.name = n /\ ret'.value)]_vars

\* a start of a pipe provider whose child is alive was refused, and the child
\* lives on
C36_Witness ==
    /\ ret.op = "start_server"
    /\ ~ret.value
    /\ servers[ret.name].server_type = "stdio"
    /\ servers[ret.name].status = "running"
    /\ servers[ret.name].alive

\* the provider can be sent to: it is registered with status running and, on
\* the pipe transport, its child has not exited
Reachable(n) ==
    /\ servers[n].server_type \in {"http", "stdio"}
    /\ servers[n].status = "running"
    /\ servers[n].server_type = "stdio" => servers[n].alive

\* C37: a send to a provider that is unknown, stopped or (pipe) whose child
\* has exited returns an error envelope and writes nothing; whatever the
\* operation, a request reaches a provider only if the provider could be sent
\* to when the operation began or the operation is a start of it that
\* succeeded; a stopped provider becomes running again only by such a start
C37_NoDeliveryWhenDown ==
    /\ []((ret.op = "send_mcp_request" /\ ~(/\ ret.srv.server_type \in {"http", "stdio"}
                                            /\ ret.srv.status = "running"
                                            /\ ret.srv.server_type = "stdio" => ret.srv.alive))
             => (HasError(ret.response) /\ wire = << >>))
    /\ [][\A i \in DOMAIN wire' :
             \/ Reachable(wire'[i].server)
             \/ ret'.op = "start_server" /\ ret'.value /\ ret'.name = wire'[i].server]_vars
    /\ [][\A n \in Names :
             (servers[n].status = "stopped" /\ servers'[n].status # "stopped") =>
                 (ret'.op = "start_server" /\ ret'.value /\ ret'.name = n)]_vars

\* a send to a provider that a stop left stopped was refused
C37_Witness ==
    /\ ret.op = "send_mcp_request"
    /\ ret.srv.status = "stopped"
    /\ servers[ret.name].status = "stopped"
    /\ HasError(ret.response)
    /\ wire = << >>

-----------------------------------------------------------------------------
(* Properties of set_role (SpecPerm) *)

\* C38: a set_role with a role outside {user, admin} leaves the active role
\* and the configuration as they were; a set_role with a valid role either
\* returns with the active role and the role recorded in the configuration
\* both set to it, or raises with both as they were
C38_RoleAllOrNothing ==
    [][(ret'.op = "set_role" /\ ret' # ret) =>
          \/ /\ ret'.ok
             /\ config'.has_rbac
             /\ current_role' = config'.current_role
          \/ /\ ~ret'.ok
             /\ UNCHANGED << current_role, config >>]_vars

\* the place of a stage in the pattern of the plan
StagePlace(pattern, stage) == CHOOSE p \in DOMAIN pattern : pattern[p] = stage

\* C39: the steps of a plan are numbered 1..n in the order of the stages of
\* its pattern, whatever stages found no tool; total_steps is n; step 1 has
\* no dependency and step k > 1 depends on step k-1 alone
C39_StepsNumberedInOrder ==
    (ret.op = "create_deployment_plan" /\ ~ret.out.raised) =>
        /\ ret.out.plan.total_steps = Len(ret.out.plan.steps)
        /\ \A k \in DOMAIN ret.out.plan.steps :
              /\ ret.out.plan.steps[k].step_number = k
              /\ ret.out.plan.steps[k].dependencies
                    = (IF k = 1 THEN << >> ELSE << k - 1 >>)
              /\ \A d \in DOMAIN ret.out.plan.steps[k].dependencies :
                    ret.out.plan.steps[k].dependencies[d] \in 1..(k - 1)
        /\ \A k, l \in DOMAIN ret.out.plan.steps :
              k < l => StagePlace(deployment_patterns[ret.pattern],
                                  ret.out.plan.steps[k].stage)
                       < StagePlace(deployment_patterns[ret.pattern],
                                    ret.out.plan.steps[l].stage)

\* a hotfix plan of three steps whose third step is for the fifth stage: two
\* stages in between found no tool
C39_Witness ==
    /\ ret.op = "create_deployment_plan"
    /\ ~ret.out.raised
    /\ ret.pattern = "hotfix_deployment"
    /\ Len(ret.out.plan.steps) = 3
    /\ ret.out.plan.steps[3].stage = "monitoring"
    /\ ret.out.plan.steps[3].step_number = 3

\* C40: permission enforcement gates operation calls only.  Whatever the
\* active role, the policy and the enforcement switch are, get_server_resource
\* (resources/read) and get_server_prompt (prompts/get) on a provider that can
\* be sent to put their request on the wire, unless the transport itself
\* fails before the write completes (a communication error); their response is
\* never a denial, and they leave the role, the policy and the switch as
\* they were
C40_ReadsBypassPermission ==
    [][(ret'.op \in ReadMethods /\ ret' # ret) =>
          /\ Reachable(ret'.name) =>
                \/ wire' = << [server |-> ret'.name, method |-> ret'.op] >>
                \/ /\ ret'.response.kind = "error"
                   /\ ret'.response.error.text \in
                          {"Communication error",
                           "HTTP communication error: Connection refused"}
          /\ ret'.response.error.text \notin {"Access Denied", "Permission denied"}
          /\ UNCHANGED rbacVars]_vars

\* a resource read was delivered and answered for the role user under
\* enforcement of the deny-all policy, which denies every operation call on
\* that provider
C40_Witness ==
    /\ ret.op = "resources/read"
    /\ ret.response.kind = "result"
    /\ wire = << [server |-> ret.name, method |-> "resources/read"] >>
    /\ rbac_enabled
    /\ current_role = "user"
    /\ permissions = FallbackPermissions
    /\ \A t \in Tools : ~Check(ret.name, t).allowed

=============================================================================
